---- MODULE Spec2Model ----
(***************************************************************************)
(* A model of the Jahia box transformation engine (src/parser/box.py):     *)
(* the construction of one Box per DOM element in document order, the      *)
(* type resolver, the per-type transformers, the sort groups and the       *)
(* three markup fixups applied to every box's content.                     *)
(*                                                                         *)
(* Markup is modelled as a sequence of items.  A text item is              *)
(* [k |-> "txt", s |-> <string>]; string concatenation is sequence         *)
(* concatenation.  Elements the fixups look at are records of their own    *)
(* kind: "img", "iframe" and "h3" (with its children as a sequence of      *)
(* items).  Every other piece of markup is opaque text.                    *)
(***************************************************************************)
EXTENDS Integers, Sequences, FiniteSets, TLC

\* ------------------------------------------------------------------ bounds

\* Processing dates and validity dates are day numbers 1..MaxDate.
MaxDate == 3
\* Sort values are the strings of rank 0..MaxKey, rank 0 being the empty string.
MaxKey == 2
\* Boxes constructed in one page-parse pass.
MaxBoxes == 2
\* Entries (combo entries, buttons, snippets) of one box.
MaxEntries == 2
\* Symbols of the htaccess texts that are enumerated in full.
MaxContent == 3

\* ----------------------------------------------------------- small helpers

Txt(s) == [k |-> "txt", s |-> s]
Val(v) == [k |-> "val", v |-> v]

RECURSIVE Flatten(_)
Flatten(ss) == IF ss = <<>> THEN <<>> ELSE Head(ss) \o Flatten(Tail(ss))

RECURSIVE SeqMap(_, _)
SeqMap(F(_), s) == IF s = <<>> THEN <<>> ELSE <<F(Head(s))>> \o SeqMap(F, Tail(s))

\* ------------------------------------------------------------ type resolver

TYPE_TEXT == "text"
TYPE_ONE_COL_CONTAINER == "oneColContainer"
TYPE_COLORED_TEXT == "coloredText"
TYPE_PEOPLE_LIST == "peopleList"
TYPE_INFOSCIENCE == "infoscience"
TYPE_INFOSCIENCE_FILTER == "infoscienceFilter"
TYPE_ACTU == "actu"
TYPE_MEMENTO == "memento"
TYPE_FAQ == "faq"
TYPE_TOGGLE == "toggle"
TYPE_INCLUDE == "include"
TYPE_CONTACT == "contact"
TYPE_XML == "xml"
TYPE_LINKS == "links"
TYPE_RSS == "rss"
TYPE_FILES == "files"
TYPE_BUTTONS == "buttons_box"
TYPE_SNIPPETS == "snippets"
TYPE_SYNTAX_HIGHLIGHT == "syntaxHighlight"
TYPE_KEY_VISUAL == "keyVisual"
TYPE_MAP == "map"
TYPE_GRID == "grid"

\* Box.types: the mapping of known Jahia box types to WP box types.
types ==
  [ x \in { "epfl:textBox", "epfl:coloredTextBox", "epfl:peopleListBox",
            "epfl:infoscienceBox", "epfl:infoscienceFilteredBox", "epfl:actuBox",
            "epfl:mementoBox", "epfl:faqBox", "epfl:toggleBox", "epfl:htmlBox",
            "epfl:contactBox", "epfl:xmlBox", "epfl:linksBox", "epfl:rssBox",
            "epfl:filesBox", "epfl:bigButtonsBox", "epfl:smallButtonsBox",
            "epfl:snippetsBox", "epfl:syntaxHighlightBox", "epfl:keyVisualBox",
            "epfl:mapBox", "epfl:gridBox", "epfl:oneColContainer" } |->
    CASE x = "epfl:textBox" -> TYPE_TEXT
      [] x = "epfl:coloredTextBox" -> TYPE_COLORED_TEXT
      [] x = "epfl:peopleListBox" -> TYPE_PEOPLE_LIST
      [] x = "epfl:infoscienceBox" -> TYPE_INFOSCIENCE
      [] x = "epfl:infoscienceFilteredBox" -> TYPE_INFOSCIENCE_FILTER
      [] x = "epfl:actuBox" -> TYPE_ACTU
      [] x = "epfl:mementoBox" -> TYPE_MEMENTO
      [] x = "epfl:faqBox" -> TYPE_FAQ
      [] x = "epfl:toggleBox" -> TYPE_TOGGLE
      [] x = "epfl:htmlBox" -> TYPE_INCLUDE
      [] x = "epfl:contactBox" -> TYPE_CONTACT
      [] x = "epfl:xmlBox" -> TYPE_XML
      [] x = "epfl:linksBox" -> TYPE_LINKS
      [] x = "epfl:rssBox" -> TYPE_RSS
      [] x = "epfl:filesBox" -> TYPE_FILES
      [] x = "epfl:bigButtonsBox" -> TYPE_BUTTONS
      [] x = "epfl:smallButtonsBox" -> TYPE_BUTTONS
      [] x = "epfl:snippetsBox" -> TYPE_SNIPPETS
      [] x = "epfl:syntaxHighlightBox" -> TYPE_SYNTAX_HIGHLIGHT
      [] x = "epfl:keyVisualBox" -> TYPE_KEY_VISUAL
      [] x = "epfl:mapBox" -> TYPE_MAP
      [] x = "epfl:gridBox" -> TYPE_GRID
      [] x = "epfl:oneColContainer" -> TYPE_ONE_COL_CONTAINER ]

\* A set_type that drops the passthrough branch for identifiers outside the mapping.
set_type_no_passthrough(raw) ==
  IF raw = "" THEN "" ELSE IF raw \in DOMAIN types THEN types[raw] ELSE ""

\* Box.set_type: the type left in self.type (initially "") for the element's
\* jcr:primaryType attribute ("" when the attribute is missing).
set_type(raw) ==
  IF raw = "" THEN ""
  ELSE IF raw \in DOMAIN types THEN types[raw]
  ELSE raw

\* ------------------------------------------------------------ markup items

\* An attribute that may be absent: absent, or present with a value.
Absent == [has |-> FALSE]
Attr(v) == [has |-> TRUE, v |-> v]

Img(align, class) == [k |-> "img", align |-> align, class |-> class]
Iframe(src) == [k |-> "iframe", src |-> src]
H3(id, kids) == [k |-> "h3", id |-> id, kids |-> kids]

\* A URL is a sequence of pieces; a substring test on it is a test on its pieces.
Contains(url, piece) == \E i \in DOMAIN url : url[i] = piece
UrlText(url) == [i \in DOMAIN url |-> Txt(url[i])]

\* BeautifulSoup(content, 'html5lib'): the tree of a fragment.  A character
\* reference in text is decoded; the elements are kept.
RECURSIVE Parse(_)
Parse(content) ==
  IF content = <<>> THEN <<>>
  ELSE LET x == Head(content)
           y == CASE x.k = "txt" -> IF x.s = "&amp;" THEN Txt("&") ELSE x
                  [] x.k = "h3" -> H3(x.id, Parse(x.kids))
                  [] OTHER -> x
       IN <<y>> \o Parse(Tail(content))

\* str(soup.body) with the body tag hidden: the markup of the tree.  A bare
\* ampersand in text is written as a character reference.
RECURSIVE Serialize(_)
Serialize(tree) ==
  IF tree = <<>> THEN <<>>
  ELSE LET x == Head(tree)
           y == CASE x.k = "txt" -> IF x.s = "&" THEN Txt("&amp;") ELSE x
                  [] x.k = "h3" -> H3(x.id, Serialize(x.kids))
                  [] OTHER -> x
       IN <<y>> \o Serialize(Tail(tree))

\* ------------------------------------------------------------ video iframes

IsVideoSrc(src) ==
  /\ src.has
  /\ src.v # <<>>
  /\ \/ Contains(src.v, "youtube.com")
     \/ Contains(src.v, "youtu.be")
     \/ Contains(src.v, "player.vimeo.com")

\* '[epfl_video url="{}"]'.format(src)
VideoShortcode(url) ==
  <<Txt("[epfl_video"), Txt(" "), Txt("url=\"")>> \o UrlText(url) \o <<Txt("\"]")>>

\* The shortcode is put in front of the iframe, which stays in the tree.
RECURSIVE InsertVideoShortcodes(_)
InsertVideoShortcodes(tree) ==
  IF tree = <<>> THEN <<>>
  ELSE LET x == Head(tree)
           y == CASE x.k = "iframe" ->
                       IF IsVideoSrc(x.src) THEN VideoShortcode(x.src.v) \o <<x>> ELSE <<x>>
                  [] x.k = "h3" -> <<H3(x.id, InsertVideoShortcodes(x.kids))>>
                  [] OTHER -> <<x>>
       IN y \o InsertVideoShortcodes(Tail(tree))

\* for iframe in soup.find_all('iframe'): iframe.replaceWith(shortcode)
RECURSIVE ReplaceVideoIframes(_)
ReplaceVideoIframes(tree) ==
  IF tree = <<>> THEN <<>>
  ELSE LET x == Head(tree)
           y == CASE x.k = "iframe" ->
                       IF IsVideoSrc(x.src) THEN VideoShortcode(x.src.v) ELSE <<x>>
                  [] x.k = "h3" -> <<H3(x.id, ReplaceVideoIframes(x.kids))>>
                  [] OTHER -> <<x>>
       IN y \o ReplaceVideoIframes(Tail(tree))

\* Box.fix_video_iframes
fix_video_iframes(content) == Serialize(ReplaceVideoIframes(Parse(content)))

\* -------------------------------------------------------------- heading ids

\* Per piece of text: the piece with the characters that are neither word
\* characters, white space nor hyphens removed, in lower case.
Slugged(s) ==
  CASE s = "Hello" -> "hello"
    [] s = "World" -> "world"
    [] s = "News" -> "news"
    [] s = "[epfl_video" -> "epfl_video"
    [] s = "url=\"" -> "url"
    [] s = "https://" -> "https"
    [] s = "www." -> "www"
    [] s = "youtube.com" -> "youtubecom"
    [] s = "youtu.be" -> "youtube"
    [] s = "player.vimeo.com" -> "playervimeocom"
    [] s = "example.org" -> "exampleorg"
    [] s = "/embed/xyz" -> "embedxyz"
    [] s = "/video/1" -> "video1"
    [] s = "/map" -> "map"
    [] s = "/?u=" -> "u"
    [] OTHER -> ""

IsSpace(s) == s = " "
IsSep(s) == s = " " \/ s = "-"

\* re.sub(r'[^\w\s-]', '', value), piece by piece
RECURSIVE StripChars(_)
StripChars(ps) ==
  IF ps = <<>> THEN <<>>
  ELSE LET s == Head(ps)
       IN (IF IsSep(s) THEN <<s>> ELSE IF Slugged(s) = "" THEN <<>> ELSE <<Slugged(s)>>)
          \o StripChars(Tail(ps))

\* .strip(): leading and trailing white space
RECURSIVE LStrip(_)
LStrip(ps) == IF ps # <<>> /\ IsSpace(Head(ps)) THEN LStrip(Tail(ps)) ELSE ps

RECURSIVE RStrip(_)
RStrip(ps) ==
  IF ps # <<>> /\ IsSpace(ps[Len(ps)]) THEN RStrip(SubSeq(ps, 1, Len(ps) - 1)) ELSE ps

\* re.sub(r'[-\s]+', '-', value), and the pieces joined
RECURSIVE Collapse(_, _)
Collapse(ps, inRun) ==
  IF ps = <<>> THEN ""
  ELSE IF IsSep(Head(ps))
       THEN (IF inRun THEN "" ELSE "-") \o Collapse(Tail(ps), TRUE)
       ELSE Head(ps) \o Collapse(Tail(ps), FALSE)

\* django.utils.text.slugify
slugify(ps) == Collapse(RStrip(LStrip(StripChars(ps))), FALSE)

\* h3.text: the text of the heading's descendants
RECURSIVE TextOf(_)
TextOf(kids) ==
  IF kids = <<>> THEN <<>>
  ELSE (IF Head(kids).k = "txt" THEN <<Head(kids).s>> ELSE <<>>) \o TextOf(Tail(kids))

\* The id is set on every heading with text: an existing id is overwritten.
AddIdAlways(x) ==
  IF TextOf(x.kids) # <<>> THEN H3(Attr(slugify(TextOf(x.kids))), x.kids) ELSE x

\* if h3.text != "" and h3.get('id') is None: h3['id'] = slugify(h3.text)
AddId(x) ==
  IF TextOf(x.kids) # <<>> /\ ~x.id.has
  THEN H3(Attr(slugify(TextOf(x.kids))), x.kids)
  ELSE x

RECURSIVE AddIds(_)
AddIds(tree) ==
  IF tree = <<>> THEN <<>>
  ELSE <<IF Head(tree).k = "h3" THEN AddId(Head(tree)) ELSE Head(tree)>> \o AddIds(Tail(tree))

\* Box.add_id_to_h3
add_id_to_h3(content) == Serialize(AddIds(Parse(content)))

\* ------------------------------------------------------------ image alignment

\* if align and align == 'left': img['class'] = 'left'; del img['align']
FixAlign(x) ==
  IF x.align.has /\ x.align.v = "left"
  THEN [x EXCEPT !.align = Absent, !.class = Attr("left")]
  ELSE x

RECURSIVE FixAligns(_)
FixAligns(tree) ==
  IF tree = <<>> THEN <<>>
  ELSE LET x == Head(tree)
           y == CASE x.k = "img" -> FixAlign(x)
                  [] x.k = "h3" -> H3(x.id, FixAligns(x.kids))
                  [] OTHER -> x
       IN <<y>> \o FixAligns(Tail(tree))

\* Box.fix_img_align_left
fix_img_align_left(content) == Serialize(FixAligns(Parse(content)))

\* --------------------------------------------------------------- sort groups

\* Sort keys.  A string key is the rank of the string in lexical order (rank 0
\* is the empty string); an index key is the integer itself.  Ordering a
\* string against an integer raises TypeError.
StrKey(n) == [kind |-> "str", v |-> n]
IntKey(n) == [kind |-> "int", v |-> n]

\* The text of a string of rank n.
Str(n) == IF n = 0 THEN <<>> ELSE <<Val(n)>>

EmptyMap == [x \in {} |-> <<>>]

\* d[key] = item on a dict
DictPut(d, key, item) ==
  [x \in DOMAIN d \cup {key} |-> IF x = key THEN item ELSE d[x]]

Comparable(keys) == \A x, y \in keys : x.kind = y.kind

RECURSIVE SortKeys(_, _)
SortKeys(keys, reverse) ==
  IF keys = {} THEN <<>>
  ELSE LET first == CHOOSE x \in keys :
                      \A y \in keys : IF reverse THEN y.v <= x.v ELSE x.v <= y.v
       IN <<first>> \o SortKeys(keys \ {first}, reverse)

\* sorted(d.items(), reverse=reverse): the keys in order, or TypeError
Sorted(d, reverse) ==
  IF Comparable(DOMAIN d)
  THEN [raised |-> FALSE, keys |-> SortKeys(DOMAIN d, reverse)]
  ELSE [raised |-> TRUE, keys |-> <<>>]

\* BoxSortedGroup(uuid, sort_field, sort_way)
BoxSortedGroup(uuid, sort_field, sort_way) ==
  [uuid |-> uuid, sort_field |-> sort_field, sort_way |-> sort_way, boxes |-> EmptyMap]

\* BoxSortedGroup.add_box_to_sort: the item is stored under its sort value
add_box_to_sort(group, item, sort_value) ==
  [group EXCEPT !.boxes = DictPut(group.boxes, sort_value, item)]

\* BoxSortedGroup.get_sorted_boxes: the items by sort value, in the group's direction
get_sorted_boxes(group) ==
  LET r == Sorted(group.boxes, group.sort_way = "desc")
  IN [raised |-> r.raised, items |-> [i \in DOMAIN r.keys |-> group.boxes[r.keys[i]]]]

\* A sort handler "<field>;<direction>;<bool>;<bool>" is the sequence of its
\* parts; the empty string is the empty sequence.
NoSort == <<>>
SortSpec(field, way) == <<field, way, "true", "true">>

\* The page-scoped cache of sort groups: the groups created so far, in the
\* order of their creation, and the index of the group of each key.  A group
\* instance is known by its position in groups.
EmptyCache == [index |-> EmptyMap, groups |-> <<>>]

\* The cache key of get_box_sort_group
GroupKey(uuid, sort_params) == <<uuid, sort_params>>

\* Site.get_box_sort_group: the group of the key, created on first use:
\* the cache after the call, and the instance returned.
get_box_sort_group(cache, uuid, sort_params) ==
  LET key == GroupKey(uuid, sort_params)
  IN IF key \in DOMAIN cache.index
     THEN [cache |-> cache, group |-> cache.index[key]]
     ELSE [cache |-> [index |-> DictPut(cache.index, key, Len(cache.groups) + 1),
                      groups |-> Append(cache.groups,
                                        BoxSortedGroup(uuid, sort_params[1], sort_params[2]))],
           group |-> Len(cache.groups) + 1]

\* Site.register_shortcode(name, attributes, box): the registry holds the
\* shortcode names with the attributes to fix
register_shortcode(registry, shortcode) == registry \cup {shortcode}

\* Utils.get_tag_attribute on the tags of one name: the attribute of the
\* first tag, the empty value when there is no tag.
get_tag_attribute(tags, attribute, empty) ==
  IF tags = <<>> THEN empty ELSE tags[1][attribute]

\* -------------------------------------------------------------- list helpers

\* A repository path is the sequence of its segments after split("/"):
\* /content/sites/mysite/files/doc.pdf is <<"", "content", "sites", "mysite",
\* "files", "doc.pdf">>.
Drop(s, n) == IF Len(s) <= n THEN <<>> ELSE SubSeq(s, n + 1, Len(s))

Seg(s) == IF s = "" THEN <<>> ELSE <<Txt(s)>>

\* The text of a path, from its segments
RECURSIVE Join(_)
Join(segs) ==
  IF segs = <<>> THEN <<>>
  ELSE IF Len(segs) = 1 THEN Seg(segs[1])
  ELSE Seg(segs[1]) \o <<Txt("/")>> \o Join(Tail(segs))

\* Three segments are stripped: the name of the site stays in the link.
FileUrlKeepSite(path) == <<"">> \o Drop(path, 3)

\* '/' + '/'.join(path.split("/")[4:]), as the segments of the result
FileUrl(path) == <<"">> \o (IF Drop(path, 4) = <<>> THEN <<"">> ELSE Drop(path, 4))

FileItem(path) ==
  LET file_url == FileUrl(path)
      file_name == file_url[Len(file_url)]
  IN <<Txt("<li><a href=\"")>> \o Join(file_url) \o <<Txt("\">")>>
     \o (IF file_name = "" THEN <<>> ELSE <<Txt(file_name)>>) \o <<Txt("</a></li>")>>

\* Box._parse_files_to_list, on the jahia:value of the file tags of the element
_parse_files_to_list(files) ==
  LET items == Flatten([i \in DOMAIN files |-> FileItem(files[i])])
  IN IF items = <<>> THEN <<>> ELSE <<Txt("<ul>")>> \o items \o <<Txt("</ul>")>>

\* page_content.language
Language == "en"

\* "/page-{}-{}.html".format(page.pid, self.page_content.language)
PageUrl(pid) == <<Txt("/page-"), Val(pid), Txt("-"), Txt(Language), Txt(".html")>>

\* The tag name a sort handler names: "jahia:" and the last part, split at "_",
\* of its field descriptor.
SortTagName(sort_params) == "jahia:" \o sort_params[1][Len(sort_params[1])]

\* '<li><a href="{}">{}</a>{}</li>'.format(url, title, desc)
LinkItem(url, title, desc) ==
  <<Txt("<li><a href=\"")>> \o url \o <<Txt("\">")>> \o Str(title)
  \o <<Txt("</a>")>> \o Str(desc) \o <<Txt("</li>")>>

\* The url of one <links> entry: the page of a jahia:link reference ("" when
\* the page registry does not hold it), the value of a jahia:url.
LinkUrl(pages, tag) ==
  CASE tag.name = "jahia:link" ->
         IF tag.ref \in DOMAIN pages THEN PageUrl(pages[tag.ref]) ELSE <<>>
    [] tag.name = "jahia:url" -> UrlText(tag.value)
    [] OTHER -> <<>>

\* The loop of _parse_links_to_list over the <links> entries, from entry i on.
RECURSIVE LinksLoop(_, _, _, _, _)
LinksLoop(pages, entries, i, sort_tag_name, group) ==
  IF i > Len(entries) THEN [raised |-> FALSE, group |-> group]
  ELSE LET e == entries[i]
           sorting == sort_tag_name # ""
           has_tag == e.tag.name = sort_tag_name
       IN IF sorting /\ (~has_tag \/ e.tag.title = 0)
          THEN [raised |-> TRUE, group |-> group]
          ELSE LET sort_value == IF sorting THEN StrKey(e.tag.title)
                                 ELSE IntKey(Cardinality(DOMAIN group.boxes))
                   title == IF e.tag.name \in {"jahia:link", "jahia:url"}
                            THEN e.tag.title ELSE 0
                   link_html == LinkItem(LinkUrl(pages, e.tag), title, e.desc)
               IN LinksLoop(pages, entries, i + 1, sort_tag_name,
                            add_box_to_sort(group, link_html, sort_value))

\* Box._parse_links_to_list on an element with a jahia:sortHandler attribute
\* and <links> entries: [raised, content]
_parse_links_to_list(pages, element) ==
  LET sort_params == element.sortHandler
      sort_way == IF sort_params # NoSort THEN sort_params[2] ELSE "asc"
      sort_tag_name == IF sort_params # NoSort THEN SortTagName(sort_params) ELSE ""
      loop == LinksLoop(pages, element.links, 1, sort_tag_name,
                        BoxSortedGroup("", "", sort_way))
      sorted == get_sorted_boxes(loop.group)
  IN IF loop.raised \/ sorted.raised THEN [raised |-> TRUE, content |-> <<>>]
     ELSE [raised |-> FALSE,
           content |-> IF sorted.items = <<>> THEN <<>>
                       ELSE <<Txt("<ul>")>> \o Flatten(sorted.items) \o <<Txt("</ul>")>>]

\* An element without links
NoLinks == [sortHandler |-> NoSort, links |-> <<>>]

\* -------------------------------------------------------------------- text

\* A twitter timeline anchor (with the script that follows it)
Twitter(href) == [k |-> "tw", href |-> href]

HasTwitter(content) == \E i \in DOMAIN content : content[i].k = "tw"

\* link.replace_with('[epfl_twitter url="{}"]\n'.format(link['href'])), the
\* twitter script removed
RECURSIVE ReplaceTwitter(_)
ReplaceTwitter(tree) ==
  IF tree = <<>> THEN <<>>
  ELSE LET x == Head(tree)
           y == IF x.k = "tw" /\ x.href.has /\ x.href.v # <<>>
                THEN <<Txt("[epfl_twitter url=\"")>> \o UrlText(x.href.v) \o <<Txt("\"]\n")>>
                ELSE <<x>>
       IN y \o ReplaceTwitter(Tail(tree))

\* filter_and_transform of set_box_text
filter_and_transform(box_content) ==
  IF HasTwitter(box_content) THEN Serialize(ReplaceTwitter(Parse(box_content)))
  ELSE box_content

\* The validity dates of a scheduler.  A date and time "<date>T<time>" is the
\* pair of its parts, the empty string is the empty sequence; a date is a day
\* number, 0 standing for the empty string.
NoDate == <<>>
DateTime(date, time) == <<date, time>>

\* The opening tag of the scheduler shortcode, one piece of text
SchedulerOpen(start_date, end_date, start_time, end_time) ==
  [k |-> "sched", start_date |-> start_date, end_date |-> end_date,
   start_time |-> start_time, end_time |-> end_time]

SchedulerClose == Txt("[/epfl_scheduler]")

\* A start date in the past is not looked for: a box with a date is always wrapped.
scheduler_ignores_past_start(start_datetime, end_datetime, content, today) ==
  IF start_datetime = NoDate /\ end_datetime = NoDate THEN content
  ELSE LET start_date == IF Len(start_datetime) >= 2 THEN start_datetime[1] ELSE 0
           start_time == IF Len(start_datetime) >= 2 THEN start_datetime[2] ELSE ""
           end_date == IF Len(end_datetime) >= 2 THEN end_datetime[1] ELSE 0
           end_time == IF Len(end_datetime) >= 2 THEN end_datetime[2] ELSE ""
       IN <<SchedulerOpen(IF start_date = 0 /\ end_date # 0 THEN today ELSE start_date,
                          end_date, start_time, end_time)>>
          \o content \o <<SchedulerClose>>

\* A synthetic start date is never used: an absent start date stays empty.
scheduler_no_synthetic_start(start_datetime, end_datetime, content, today) ==
  IF start_datetime = NoDate /\ end_datetime = NoDate THEN content
  ELSE LET start_date == IF Len(start_datetime) >= 2 THEN start_datetime[1] ELSE 0
           start_time == IF Len(start_datetime) >= 2 THEN start_datetime[2] ELSE ""
           end_date == IF Len(end_datetime) >= 2 THEN end_datetime[1] ELSE 0
           end_time == IF Len(end_datetime) >= 2 THEN end_datetime[2] ELSE ""
       IN IF start_date # 0 /\ end_date = 0 /\ start_date < today THEN content
          ELSE <<SchedulerOpen(start_date, end_date, start_time, end_time)>>
               \o content \o <<SchedulerClose>>

\* A start date on the date of processing counts as past: the wrapper is omitted.
scheduler_omits_from_today(start_datetime, end_datetime, content, today) ==
  IF start_datetime = NoDate /\ end_datetime = NoDate THEN content
  ELSE LET start_date == IF Len(start_datetime) >= 2 THEN start_datetime[1] ELSE 0
           start_time == IF Len(start_datetime) >= 2 THEN start_datetime[2] ELSE ""
           end_date == IF Len(end_datetime) >= 2 THEN end_datetime[1] ELSE 0
           end_time == IF Len(end_datetime) >= 2 THEN end_datetime[2] ELSE ""
       IN IF start_date # 0 /\ end_date = 0 /\ start_date <= today THEN content
          ELSE <<SchedulerOpen(IF start_date = 0 /\ end_date # 0 THEN today ELSE start_date,
                               end_date, start_time, end_time)>>
               \o content \o <<SchedulerClose>>

\* Box._set_scheduler_box: the content it returns (it sets the shortcode name
\* to epfl_scheduler in every case).  today is datetime.now() as a day number.
_set_scheduler_box(start_datetime, end_datetime, content, today) ==
  IF start_datetime = NoDate /\ end_datetime = NoDate THEN content
  ELSE LET start_date == IF Len(start_datetime) >= 2 THEN start_datetime[1] ELSE 0
           start_time == IF Len(start_datetime) >= 2 THEN start_datetime[2] ELSE ""
           end_date == IF Len(end_datetime) >= 2 THEN end_datetime[1] ELSE 0
           end_time == IF Len(end_datetime) >= 2 THEN end_datetime[2] ELSE ""
       IN IF start_date # 0 /\ end_date = 0 /\ start_date < today THEN content
          ELSE <<SchedulerOpen(IF start_date = 0 /\ end_date # 0 THEN today ELSE start_date,
                               end_date, start_time, end_time)>>
               \o content \o <<SchedulerClose>>

\* The state of the loop of set_box_text over the <comboList> entries
ComboStart(sort_infos) ==
  [raised |-> FALSE, sorting |-> sort_infos # NoSort,
   sort_way |-> IF sort_infos # NoSort THEN sort_infos[2] ELSE "asc",
   box_index |-> 0, box_list |-> EmptyMap]

\* The entries of one key are all kept, the later after the earlier.
ComboKeyAppend(st, jcr, box_content) ==
  LET put(d, key) == DictPut(d, key, IF key \in DOMAIN d THEN d[key] \o box_content
                                     ELSE box_content)
  IN IF st.sorting /\ jcr # 0
     THEN [st EXCEPT !.box_list = put(st.box_list, StrKey(jcr))]
     ELSE [st EXCEPT !.sorting = FALSE, !.sort_way = "asc",
                     !.box_index = st.box_index + 1,
                     !.box_list = put(st.box_list, IntKey(st.box_index))]

\* Lines 372-388 of set_box_text: the key of one entry (jcr is the value of its
\* sort attribute, rank 0 when empty), and the entry's content saved under it.
ComboKey(st, jcr, box_content) ==
  IF st.sorting
  THEN IF jcr = 0
       THEN [st EXCEPT !.sorting = FALSE, !.sort_way = "asc",
                       !.box_index = st.box_index + 1,
                       !.box_list = DictPut(st.box_list, IntKey(st.box_index), box_content)]
       ELSE [st EXCEPT !.box_list = DictPut(st.box_list, StrKey(jcr), box_content)]
  ELSE [st EXCEPT !.box_index = st.box_index + 1,
                  !.box_list = DictPut(st.box_list, IntKey(st.box_index), box_content)]

\* The content generated for one <comboList> entry: [raised, content]
ComboContent(pages, combo) ==
  LET links == _parse_links_to_list(pages, combo.links)
  IN [raised |-> links.raised,
      content |-> combo.text \o _parse_files_to_list(combo.files) \o links.content]

\* The loop of set_box_text over the <comboList> entries, from entry i on
RECURSIVE ComboLoop(_, _, _, _)
ComboLoop(pages, combos, i, st) ==
  IF i > Len(combos) THEN st
  ELSE LET c == ComboContent(pages, combos[i])
       IN IF c.raised THEN [st EXCEPT !.raised = TRUE]
          ELSE IF c.content = <<>> THEN ComboLoop(pages, combos, i + 1, st)
          ELSE ComboLoop(pages, combos, i + 1, ComboKey(st, combos[i].jcr, c.content))

\* The scheduler is entered for the rule type of the first <comboList> tag.
NeedsScheduler(combos) ==
  get_tag_attribute(combos, "ruleType", "") = "START_AND_END_DATE"

\* Box.set_box_text with multibox.  The result holds box_list as it is before
\* sorting (held) and its keys in the order of the sorted list (order).
SetBoxTextMulti(pages, el, today) ==
  LET st == ComboLoop(pages, el.combos, 1, ComboStart(el.comboSort))
      sorted == Sorted(st.box_list, st.sort_way = "desc")
      content == Flatten([i \in DOMAIN sorted.keys |->
                            filter_and_transform(st.box_list[sorted.keys[i]])])
      scheduled == NeedsScheduler(el.combos)
  IN IF st.raised \/ sorted.raised
     THEN [raised |-> TRUE, content |-> <<>>, shortcode_name |-> "",
           registered |-> {}, held |-> st.box_list, order |-> <<>>]
     ELSE [raised |-> FALSE,
           content |-> IF scheduled
                       THEN _set_scheduler_box(
                              get_tag_attribute(el.combos, "validFrom", NoDate),
                              get_tag_attribute(el.combos, "validTo", NoDate),
                              content, today)
                       ELSE content,
           shortcode_name |-> IF scheduled THEN "epfl_scheduler" ELSE "",
           registered |-> {}, held |-> st.box_list, order |-> sorted.keys]

\* Box.set_box_text without multibox
SetBoxTextSingle(pages, el) ==
  LET links == IF el.hasLinksList THEN _parse_links_to_list(pages, el.links)
               ELSE [raised |-> FALSE, content |-> <<>>]
      files == IF el.hasFilesList THEN _parse_files_to_list(el.files) ELSE <<>>
  IN IF links.raised
     THEN [raised |-> TRUE, content |-> <<>>, shortcode_name |-> "",
           registered |-> {}, held |-> EmptyMap, order |-> <<>>]
     ELSE [raised |-> FALSE,
           content |-> filter_and_transform(el.text) \o files \o links.content,
           shortcode_name |-> "", registered |-> {}, held |-> EmptyMap, order |-> <<>>]

\* Box.set_box_text
set_box_text(pages, el, multibox, today) ==
  IF multibox THEN SetBoxTextMulti(pages, el, today) ELSE SetBoxTextSingle(pages, el)

\* ----------------------------------------------------------------- buttons

\* Utils.handle_custom_chars(text): the escaped form of a string
Escaped(n) == IF n = 0 THEN <<>> ELSE <<[k |-> "esc", v |-> n]>>

\* Box._get_button_shortcode
_get_button_shortcode(box_type, url, alt_text, text, big_button_image_url, small_button_key) ==
  <<Txt("[epfl_buttons type=\""), Txt(box_type), Txt("\" url=\"")>> \o url \o <<Txt("\" ")>>
  \o (IF big_button_image_url = <<>> THEN <<>>
      ELSE <<Txt("image=\"")>> \o big_button_image_url \o <<Txt("\"")>>)
  \o <<Txt(" alt_text=\"")>> \o Escaped(alt_text) \o <<Txt("\" text=\"")>> \o Escaped(text)
  \o <<Txt("\" ")>>
  \o (IF small_button_key = "" THEN <<>> ELSE <<Txt("key=\""), Txt(small_button_key), Txt("\"")>>)
  \o <<Txt("]")>>

\* The shortcode of one button (lines 968-1023)
ButtonContent(pages, box_type, b) ==
  LET big_url == CASE b.tag.name = "jahia:link" ->
                        IF b.tag.ref \in DOMAIN pages THEN PageUrl(pages[b.tag.ref]) ELSE <<>>
                   [] b.tag.name = "jahia:url" -> UrlText(b.tag.value)
                   [] OTHER -> <<>>
      url == IF box_type = "small" THEN UrlText(b.value) ELSE big_url
      text == IF box_type = "small" THEN b.label ELSE b.tag.title
      image == IF b.image = <<>> THEN <<>> ELSE Join(FileUrl(b.image))
  IN _get_button_shortcode(box_type, url, b.label, text, image, b.key)

\* The direction is always ascending: the sort handler's direction is not read.
ButtonsSortWayAsc(sort_params) == "asc"

\* sort_way of set_box_buttons (lines 928-940)
ButtonsSortWay(sort_params) == IF sort_params # NoSort THEN sort_params[2] ELSE "asc"

\* The loop of set_box_buttons over the buttons, from button i on.  An item
\* of the group is the button's position and its shortcode.
RECURSIVE ButtonsLoop(_, _, _, _, _, _)
ButtonsLoop(pages, box_type, buttons, i, sort_tag_name, group) ==
  IF i > Len(buttons) THEN [raised |-> FALSE, group |-> group]
  ELSE LET b == buttons[i]
           sorting == sort_tag_name # ""
       IN IF sorting /\ (b.tag.name # sort_tag_name \/ b.tag.title = 0)
          THEN [raised |-> TRUE, group |-> group]
          ELSE LET sort_value == IF sorting THEN StrKey(b.tag.title)
                                 ELSE IntKey(Cardinality(DOMAIN group.boxes))
               IN ButtonsLoop(pages, box_type, buttons, i + 1, sort_tag_name,
                              add_box_to_sort(group,
                                              [i |-> i, c |-> ButtonContent(pages, box_type, b)],
                                              sort_value))

\* The transformers' result: whether the transformer raised, the content and
\* the shortcode name it left in the box, the shortcodes it registered, and
\* (where it orders entries by key) the map it held and the keys in the
\* order of rendering.
Result(raised, content, shortcode_name, registered, held, order) ==
  [raised |-> raised, content |-> content, shortcode_name |-> shortcode_name,
   registered |-> registered, held |-> held, order |-> order]

Plain(content, shortcode_name) == Result(FALSE, content, shortcode_name, {}, EmptyMap, <<>>)

Shortcode(name, attributes) == [name |-> name, attributes |-> attributes]

\* The content is assigned as the buttons are rendered: a raise leaves in the
\* box the buttons rendered before the faulty one.
set_box_buttons_assign_early(pages, el) ==
  LET box_type == IF el.primaryType = "epfl:smallButtonsBox" THEN "small" ELSE "big"
      sort_params == el.sortHandler
      sort_tag_name == IF sort_params # NoSort THEN SortTagName(sort_params) ELSE ""
      loop == ButtonsLoop(pages, box_type, el.buttons, 1, sort_tag_name,
                          BoxSortedGroup("", "", ButtonsSortWay(sort_params)))
      sorted == Sorted(loop.group.boxes, loop.group.sort_way = "desc")
      items == get_sorted_boxes(loop.group).items
      registered == {Shortcode("epfl_buttons", <<"image", "url">>)}
  IN Result(loop.raised \/ sorted.raised,
            <<Txt("[epfl_buttons_container]")>>
            \o Flatten([j \in DOMAIN items |-> items[j].c])
            \o <<Txt("[/epfl_buttons_container]")>>,
            "epfl_buttons", registered, loop.group.boxes, sorted.keys)

\* The shortcode is registered and named once the buttons are read: a raise
\* leaves the registry and the name of the box as they were.
set_box_buttons_register_late(pages, el) ==
  LET box_type == IF el.primaryType = "epfl:smallButtonsBox" THEN "small" ELSE "big"
      sort_params == el.sortHandler
      sort_tag_name == IF sort_params # NoSort THEN SortTagName(sort_params) ELSE ""
      loop == ButtonsLoop(pages, box_type, el.buttons, 1, sort_tag_name,
                          BoxSortedGroup("", "", ButtonsSortWay(sort_params)))
      sorted == Sorted(loop.group.boxes, loop.group.sort_way = "desc")
      items == get_sorted_boxes(loop.group).items
      registered == {Shortcode("epfl_buttons", <<"image", "url">>)}
  IN IF loop.raised \/ sorted.raised
     THEN Result(TRUE, <<>>, "", {}, loop.group.boxes, <<>>)
     ELSE Result(FALSE,
                 <<Txt("[epfl_buttons_container]")>>
                 \o Flatten([j \in DOMAIN items |-> items[j].c])
                 \o <<Txt("[/epfl_buttons_container]")>>,
                 "epfl_buttons", registered, loop.group.boxes, sorted.keys)

\* Box.set_box_buttons
set_box_buttons(pages, el) ==
  LET box_type == IF el.primaryType = "epfl:smallButtonsBox" THEN "small" ELSE "big"
      sort_params == el.sortHandler
      sort_tag_name == IF sort_params # NoSort THEN SortTagName(sort_params) ELSE ""
      loop == ButtonsLoop(pages, box_type, el.buttons, 1, sort_tag_name,
                          BoxSortedGroup("", "", ButtonsSortWay(sort_params)))
      sorted == Sorted(loop.group.boxes, loop.group.sort_way = "desc")
      items == get_sorted_boxes(loop.group).items
      registered == {Shortcode("epfl_buttons", <<"image", "url">>)}
  IN IF loop.raised \/ sorted.raised
     THEN Result(TRUE, <<>>, "epfl_buttons", registered, loop.group.boxes, <<>>)
     ELSE Result(FALSE,
                 <<Txt("[epfl_buttons_container]")>>
                 \o Flatten([j \in DOMAIN items |-> items[j].c])
                 \o <<Txt("[/epfl_buttons_container]")>>,
                 "epfl_buttons", registered, loop.group.boxes, sorted.keys)

\* ------------------------------------------------------ other transformers

UPDATE_LANG == "UPDATE_LANG_BY_EXPORTER"

\* A title is the sequence of the pieces of its text.
TitleText(title) == [i \in DOMAIN title |-> Txt(title[i])]

\* "<h3>{}</h3>".format(title)
TitleHeading(title) == <<H3(Absent, TitleText(title))>>

\* Box.set_box_people_list.  templateKey is the key of the jahia-resource of
\* the template html, "" when there is no template html.
set_box_people_list(el) ==
  IF el.templateKey = ""
  THEN Plain(<<Txt("[epfl_people error: no HTML template set]")>>, "epfl_people")
  ELSE LET struct == el.templateKey = "epfl_peopleListContainer.template.default_bloc"
           template ==
             CASE el.templateKey = "epfl_peopleListContainer.template.default_bloc" ->
                    "default_struct_bloc"
               [] el.templateKey = "epfl_peopleListContainer.template.default_bloc_simple" ->
                    "default_bloc"
               [] el.templateKey = "epfl_peopleListContainer.template.default_list" ->
                    "default_list"
               [] OTHER -> el.templateKey
       IN Plain(<<Txt("[epfl_people url=\""),
                  Txt("https://people.epfl.ch/cgi-bin/getProfiles?"), Txt("unit=")>>
                \o Str(el.query)
                \o (IF el.function = 0 THEN <<>> ELSE <<Txt("&function=")>> \o Str(el.function))
                \o (IF struct THEN <<Txt("&struct=1")>> ELSE <<>>)
                \o <<Txt("&tmpl="), Txt("WP_"), Txt(template), Txt("&lang="), Txt(UPDATE_LANG),
                     Txt("\" /]")>>,
                "epfl_people")

\* A service url is the query parse.parse_qs finds in it: a function from the
\* names of its parameters to the sequences of their values.
Param(q, name) == IF name \in DOMAIN q THEN q[name][1] ELSE ""

RECURSIVE Commas(_)
Commas(vs) ==
  IF vs = <<>> THEN <<>>
  ELSE IF Len(vs) = 1 THEN <<Txt(vs[1])>>
  ELSE <<Txt(vs[1]), Txt(",")>> \o Commas(Tail(vs))

\* Box._extract_epfl_news_parameters
_extract_epfl_news_parameters(q) ==
  IF "themes" \in DOMAIN q /\ "theme" \notin DOMAIN q
  THEN [raised |-> TRUE]
  ELSE [raised |-> FALSE,
        channel_id |-> Param(q, "channel"),
        lang |-> CASE Param(q, "lang") = "ang" -> "en"
                   [] Param(q, "lang") = "fra" -> "fr"
                   [] OTHER -> Param(q, "lang"),
        template |-> Param(q, "template"),
        category |-> Param(q, "category"),
        themes |-> IF "themes" \in DOMAIN q THEN q["theme"] ELSE <<>>,
        stickers |-> IF "sticker" \in DOMAIN q THEN "no" ELSE "yes",
        projects |-> IF "project" \in DOMAIN q THEN q["project"] ELSE <<>>]

QuotedAttr(name, value) == <<Txt(name), Txt("=\""), Txt(value), Txt("\" ")>>

SmallForward(url, title) ==
  _get_button_shortcode("small", UrlText(url), title, title, <<>>, "forward")

\* Box.set_box_actu
set_box_actu(el, title, is_in_sidebar) ==
  LET p == _extract_epfl_news_parameters(el.url)
      more == el.moreUrl # <<>> /\ el.moreTitle # 0
      rss == el.rssUrl # <<>> /\ el.rssTitle # 0
  IN IF p.raised THEN Result(TRUE, <<>>, "epfl_news", {}, EmptyMap, <<>>)
     ELSE Plain(
       (IF ~is_in_sidebar THEN TitleHeading(title) ELSE <<>>)
       \o <<Txt("[epfl_news ")>> \o QuotedAttr("channel", p.channel_id)
       \o QuotedAttr("lang", p.lang) \o QuotedAttr("template", p.template)
       \o (IF p.category # "" THEN QuotedAttr("category", p.category) ELSE <<>>)
       \o (IF p.themes # <<>>
           THEN <<Txt("themes"), Txt("=\"")>> \o Commas(p.themes) \o <<Txt("\" ")>> ELSE <<>>)
       \o QuotedAttr("stickers", p.stickers)
       \o (IF p.projects # <<>>
           THEN <<Txt("projects"), Txt("=\"")>> \o Commas(p.projects) \o <<Txt("\" ")>> ELSE <<>>)
       \o <<Txt("/]")>>
       \o (IF more \/ rss
           THEN <<Txt("[epfl_buttons_container]")>>
                \o (IF more THEN SmallForward(el.moreUrl, el.moreTitle) ELSE <<>>)
                \o (IF rss THEN SmallForward(el.rssUrl, el.rssTitle) ELSE <<>>)
                \o <<Txt("[/epfl_buttons_container]")>>
           ELSE <<>>),
       "epfl_news")

\* Box._extract_epfl_memento_parameters and Box.set_box_memento
set_box_memento(el) ==
  LET q == el.url
      period == IF "period" \in DOMAIN q
                THEN (IF Param(q, "period") = "2" THEN "upcoming" ELSE "past") ELSE ""
      opt(attr, value) == IF value # "" THEN QuotedAttr(attr, value) ELSE <<>>
  IN Plain(
       (IF el.boxTitle.has THEN TitleHeading(el.boxTitle.v) \o <<Txt(" ")>> ELSE <<>>)
       \o <<Txt("[epfl_memento ")>> \o QuotedAttr("memento", Param(q, "memento"))
       \o QuotedAttr("lang", Param(q, "lang")) \o QuotedAttr("template", Param(q, "template"))
       \o opt("period", period) \o opt("color", Param(q, "color"))
       \o opt("keyword", Param(q, "filters")) \o opt("category", Param(q, "category"))
       \o opt("reorder", Param(q, "reorder")) \o <<Txt("/]")>>,
       "epfl_memento")

\* Box.set_box_infoscience, on the urls of the container tag of the box type
set_box_infoscience(el, title) ==
  Plain((IF title # <<>> THEN TitleHeading(title) ELSE <<>>)
        \o Flatten([i \in DOMAIN el.urls |->
                      <<Txt("[epfl_infoscience url=\"")>> \o UrlText(el.urls[i]) \o <<Txt("\"]")>>]),
        "epfl_infoscience")

\* Box.set_box_faq
set_box_faq(el) ==
  Result(FALSE,
         <<Txt("[epfl_faq]\n")>>
         \o Flatten([i \in DOMAIN el.entries |->
                       <<Txt("[epfl_faqItem question=\"")>> \o Escaped(el.entries[i].question)
                       \o <<Txt("\"]")>> \o el.entries[i].answer \o <<Txt("[/epfl_faqItem]\n")>>])
         \o <<Txt("[/epfl_faq]")>>,
         "epfl_faq", {Shortcode("epfl_faqItem", <<"link", "image">>)}, EmptyMap, <<>>)

\* Box.set_box_toggle
set_box_toggle(el, title) ==
  Plain(<<Txt("[epfl_toggle title=\"")>> \o TitleText(title) \o <<Txt("\" state=\""),
          Txt(IF el.opened = "true" THEN "open" ELSE "close"), Txt("\"]")>>
        \o el.content \o <<Txt("[/epfl_toggle]")>>,
        "epfl_toggle")

\* Utils.get_redirected_url(url): the url the web answers for it
get_redirected_url(url) == <<"redirected:">> \o url

\* The infoscience test comes first, before the test of the profile service.
set_box_include_infoscience_first(el, title) ==
  CASE Contains(el.target, "://infoscience.epfl.ch/") -> set_box_infoscience(el, title)
    [] Contains(el.target, "://people.epfl.ch/cgi-bin/getProfiles?") ->
         Plain(<<Txt("[epfl_people url=\"")>>
               \o UrlText([i \in DOMAIN el.target |->
                             IF el.target[i] = "tmpl=" THEN "tmpl=WP_" ELSE el.target[i]])
               \o <<Txt("\" /]")>>,
               "epfl_people")
    [] Contains(el.target, "://actu.epfl.ch/") ->
         LET p == _extract_epfl_news_parameters(el.url)
         IN IF p.raised THEN Result(TRUE, <<>>, "epfl_news", {}, EmptyMap, <<>>)
            ELSE Plain(<<Txt("[epfl_news ")>> \o QuotedAttr("channel", p.channel_id)
                       \o QuotedAttr("lang", p.lang) \o QuotedAttr("template", p.template)
                       \o <<Txt("]")>>,
                       "epfl_news")
    [] OTHER ->
         Plain(<<Txt("[remote_content url=\"")>> \o UrlText(get_redirected_url(el.target))
               \o <<Txt("\"]")>>, "")

\* Box.set_box_include
set_box_include(el, title) ==
  CASE Contains(el.target, "://people.epfl.ch/cgi-bin/getProfiles?") ->
         Plain(<<Txt("[epfl_people url=\"")>>
               \o UrlText([i \in DOMAIN el.target |->
                             IF el.target[i] = "tmpl=" THEN "tmpl=WP_" ELSE el.target[i]])
               \o <<Txt("\" /]")>>,
               "epfl_people")
    [] Contains(el.target, "://infoscience.epfl.ch/") -> set_box_infoscience(el, title)
    [] Contains(el.target, "://actu.epfl.ch/") ->
         LET p == _extract_epfl_news_parameters(el.url)
         IN IF p.raised THEN Result(TRUE, <<>>, "epfl_news", {}, EmptyMap, <<>>)
            ELSE Plain(<<Txt("[epfl_news ")>> \o QuotedAttr("channel", p.channel_id)
                       \o QuotedAttr("lang", p.lang) \o QuotedAttr("template", p.template)
                       \o <<Txt("]")>>,
                       "epfl_news")
    [] OTHER ->
         Plain(<<Txt("[remote_content url=\"")>> \o UrlText(get_redirected_url(el.target))
               \o <<Txt("\"]")>>, "")

\* Box.set_box_contact
set_box_contact(el) == Plain(Flatten(el.contacts), "")

\* Box.set_box_xml
set_box_xml(el) ==
  Plain(<<Txt("[epfl_xml xml=\"")>> \o Str(el.xml) \o <<Txt("\" xslt=\"")>> \o Str(el.xslt)
        \o <<Txt("\"]")>>, "epfl_xml")

\* Box.set_box_rss.  nbItems is the attribute's text; a text of digits is "3" here.
set_box_rss(el) ==
  IF el.feed = <<>> THEN Plain(<<>>, "")
  ELSE LET max == IF el.nbItems = "3" THEN "3" ELSE "5"
           feed_title == IF el.hideTitle = "true" THEN "no" ELSE "yes"
           detail == IF el.detailItems # "true" THEN "no" ELSE "yes"
       IN Plain(<<Txt("[feedzy-rss feeds=\"")>> \o UrlText(el.feed) \o <<Txt("\" ")>>
                \o QuotedAttr("max", max) \o QuotedAttr("feed_title", feed_title)
                \o QuotedAttr("summary", detail) \o <<Txt("refresh=\"12_hours\" ")>>
                \o <<Txt("meta"), Txt("=\""), Txt(detail), Txt("\"]")>>, "")

\* Box.set_box_links
set_box_links(pages, el) ==
  LET r == _parse_links_to_list(pages, el.links)
  IN Result(r.raised, r.content, "", {}, EmptyMap, <<>>)

\* Box.set_box_unknown
set_box_unknown(el) == Plain(<<Txt("["), Txt(el.primaryType), Txt("]")>>, "")

\* Box.set_box_files
set_box_files(el) == Plain(_parse_files_to_list(el.files), "")

\* Box.set_box_syntax_highlight
set_box_syntax_highlight(el) ==
  Plain(<<Txt("[enlighter]")>> \o el.code \o <<Txt("[/enlighter]")>>, "")

\* Box.set_box_key_visuals
set_box_key_visuals(el) ==
  Plain(<<Txt("<ul>")>>
        \o Flatten([i \in DOMAIN el.images |->
                      <<Txt("<li>"),
                        [k |-> "img", align |-> Absent, class |-> Absent,
                         src |-> FileUrl(el.images[i])],
                        Txt("</li>")>>])
        \o <<Txt("</ul>")>>, "")

\* Box.set_box_map
set_box_map(el) ==
  Plain(<<Txt("[epfl_map query=\"")>> \o Str(el.query) \o <<Txt("\" lang=\""), Txt(UPDATE_LANG),
          Txt("\"]")>>, "epfl_map")

\* Box.set_box_grid
set_box_grid(el) ==
  Result(FALSE,
         <<Txt("[epfl_grid]\n")>>
         \o Flatten([i \in DOMAIN el.cells |->
                       <<Txt("[epfl_gridElem layout=\""), Txt(el.cells[i].layout),
                         Txt("\" link=\"")>> \o UrlText(el.cells[i].link)
                       \o <<Txt("\" title=\"")>> \o Escaped(el.cells[i].title)
                       \o <<Txt("\" image=\"")>> \o Join(el.cells[i].image)
                       \o <<Txt("\"][/epfl_gridElem]\n")>>])
         \o <<Txt("[/epfl_grid]")>>,
         "epfl_grid", {Shortcode("epfl_gridElem", <<"link", "image">>)}, EmptyMap, <<>>)

\* ---------------------------------------------------------------- snippets

\* image[image.rfind("/files"):] when "/files" is in image
FromFiles(path) ==
  LET at == {i \in DOMAIN path : i > 1 /\ path[i] = "files"}
  IN IF at = {} THEN path
     ELSE LET last == CHOOSE i \in at : \A j \in at : j <= i
          IN <<"">> \o SubSeq(path, last, Len(path))

\* The pre-scan looks for the sort tag only: an empty sort value is accepted.
SnippetsSortableByTag(snippets) ==
  \A i \in DOMAIN snippets : snippets[i].sort.has

\* The pre-scan of set_box_snippets (lines 1080-1095): whether every snippet
\* has the sort tag with a value
SnippetsSortable(snippets) ==
  \A i \in DOMAIN snippets : snippets[i].sort.has /\ snippets[i].sort.v # 0

\* The shortcode of one snippet (lines 1098-1164)
SnippetContent(pages, has_url_tag, sn) ==
  LET ext == IF has_url_tag /\ sn.tag.name = "jahia:url" THEN sn.tag.value ELSE <<>>
      resolved == has_url_tag /\ ext = <<>> /\ sn.tag.name = "jahia:link"
                  /\ sn.tag.ref \in DOMAIN pages
      url == IF ext # <<>> THEN UrlText(ext)
             ELSE IF resolved THEN PageUrl(pages[sn.tag.ref]) ELSE <<>>
      subtitle == IF ext # <<>> /\ sn.subtitle = 0 THEN sn.tag.title ELSE sn.subtitle
      description ==
        Str(sn.description)
        \o (IF resolved /\ sn.tag.title # 0
            THEN <<Txt("<a href=\"")>> \o url \o <<Txt("\">")>> \o Escaped(sn.tag.title)
                 \o <<Txt("</a>")>>
            ELSE <<>>)
  IN <<Txt("[epfl_snippets url=\"")>> \o url \o <<Txt("\" title=\"")>> \o Escaped(sn.title)
     \o <<Txt("\" subtitle=\"")>> \o Escaped(subtitle)
     \o <<Txt("\" image=\"")>> \o Join(FromFiles(sn.image))
     \o <<Txt("\" big_image=\"")>> \o Join(FromFiles(sn.bigImage))
     \o <<Txt("\" enable_zoom=\""), Txt(sn.enableImageZoom), Txt("\"]")>>
     \o description \o <<Txt("[/epfl_snippets]")>>

\* The loop of set_box_snippets over the snippets, from snippet i on
RECURSIVE SnippetsLoop(_, _, _, _, _, _)
SnippetsLoop(pages, has_url_tag, snippets, i, sorting, group) ==
  IF i > Len(snippets) THEN group
  ELSE LET sort_value == IF sorting THEN StrKey(snippets[i].sort.v)
                         ELSE IntKey(Cardinality(DOMAIN group.boxes))
       IN SnippetsLoop(pages, has_url_tag, snippets, i + 1, sorting,
                       add_box_to_sort(group,
                                       [i |-> i,
                                        c |-> SnippetContent(pages, has_url_tag, snippets[i])],
                                       sort_value))

\* Box.set_box_snippets
set_box_snippets(pages, el, title) ==
  LET registered == {Shortcode("epfl_snippets", <<"url", "image", "big_image">>)}
      sort_params == el.sortHandler
      sort_way == IF sort_params # NoSort THEN sort_params[2] ELSE "asc"
      sorting == sort_params # NoSort /\ SnippetsSortable(el.snippets)
      group == SnippetsLoop(pages, el.hasUrlTag, el.snippets, 1, sorting,
                            BoxSortedGroup("", "", sort_way))
      sorted == Sorted(group.boxes, group.sort_way = "desc")
      items == get_sorted_boxes(group).items
  IN IF ~el.hasSnippetListList
     THEN Result(FALSE, <<>>, "epfl_snippets", registered, EmptyMap, <<>>)
     ELSE Result(FALSE,
                 (IF title # <<>> THEN TitleHeading(title) ELSE <<>>)
                 \o Flatten([j \in DOMAIN items |-> items[j].c]),
                 "epfl_snippets", registered, group.boxes, sorted.keys)

\* -------------------------------------------------------------- sort infos

\* getAttribute of a jcr attribute of the element: rank 0 when it is missing
JcrAttr(el, field) ==
  IF ("jcr:" \o field) \in DOMAIN el.jcr THEN el.jcr["jcr:" \o field] ELSE 0

\* The box is not added to the group it got.
SortInfosForgetBox(group, box_id, sort_value) == group

\* self.sort_group.add_box_to_sort(self, sort_value) (line 121)
SortInfosAddBox(group, box_id, sort_value) == add_box_to_sort(group, box_id, sort_value)

\* Box.set_sort_infos: the cache after the call and the group instance left
\* in self.sort_group (0 for None)
set_sort_infos(cache, el, box_id) ==
  IF el.parent.nodeName = "mainList" /\ el.parent.sortHandler # NoSort
  THEN LET got == get_box_sort_group(cache, el.parent.uuid, el.parent.sortHandler)
           group == got.cache.groups[got.group]
           sort_value == StrKey(JcrAttr(el, group.sort_field))
       IN [cache |-> [got.cache EXCEPT
                        !.groups[got.group] = SortInfosAddBox(group, box_id, sort_value)],
           sort_group |-> got.group]
  ELSE [cache |-> cache, sort_group |-> 0]

\* ---------------------------------------------------------------- elements

With(base, extra) ==
  [f \in DOMAIN base \cup DOMAIN extra |-> IF f \in DOMAIN extra THEN extra[f] ELSE base[f]]

NoParent == [nodeName |-> "main", sortHandler |-> NoSort, uuid |-> ""]

\* A box element: its jcr:primaryType, its boxTitle tag, its parent node and
\* its jcr attributes; the tags of its type are added to these.
Element(primaryType, boxTitle, extra) ==
  With([primaryType |-> primaryType, boxTitle |-> boxTitle, parent |-> NoParent,
        jcr |-> EmptyMap], extra)

\* A construction: Box(site, page_content, element, multibox, is_in_sidebar)
Call(el, multibox, is_in_sidebar) ==
  [el |-> el, multibox |-> multibox, is_in_sidebar |-> is_in_sidebar]

Youtube == <<"https://", "www.", "youtube.com", "/embed/xyz">>
Vimeo == <<"https://", "player.vimeo.com", "/video/1">>
OtherSite == <<"https://", "example.org", "/map">>
NamedInQuery == <<"https://", "example.org", "/?u=", "youtu.be">>

HelloWorld == <<"Hello", " ", "World">>
BoxTitles == {Absent, Attr(<<>>), Attr(HelloWorld)}

Fragments ==
  { <<>>,
    <<Txt("Hello")>>,
    <<H3(Absent, TitleText(HelloWorld)), Txt("Hello")>>,
    <<H3(Attr("intro"), <<Txt("News")>>), H3(Absent, <<>>), H3(Absent, <<Txt("!")>>)>>,
    <<H3(Absent, <<Txt("News")>>), H3(Absent, <<Txt("News")>>)>>,
    <<Img(Attr("left"), Absent), Img(Attr("right"), Attr("big")), Img(Absent, Absent)>>,
    <<Iframe(Attr(Youtube)), Iframe(Attr(OtherSite)), Iframe(Absent)>>,
    <<H3(Absent, <<Iframe(Attr(Vimeo))>>), Txt("&")>>,
    <<H3(Absent, <<Txt("News"), Txt("&amp;"), Img(Attr("left"), Attr("x"))>>),
      Iframe(Attr(NamedInQuery))>>,
    <<Twitter(Attr(OtherSite)), Txt("&"), Img(Attr("left"), Absent)>> }

\* Repository paths, split at "/"
DocPath == <<"", "content", "sites", "mysite", "files", "doc.pdf">>
DeepPath == <<"", "content", "sites", "mysite", "files", "a", "b.png">>

\* The registered page and a reference to a page that is gone
PageRef == "uuid-page"
GoneRef == "uuid-gone"

JahiaLink(title, ref) == [name |-> "jahia:link", title |-> title, ref |-> ref, value |-> <<>>]
JahiaUrl(title, value) == [name |-> "jahia:url", title |-> title, ref |-> "", value |-> value]

LinkEntry(desc, tag) == [desc |-> desc, tag |-> tag]
LinksList(sortHandler, links) == [sortHandler |-> sortHandler, links |-> links]

LinkSort(way) == <<<<"epfl", "simple", "main", "comboList", "links", "link">>, way, "false", "false">>
UrlSort(way) == <<<<"epfl", "simple", "main", "bigButtonList", "url">>, way, "false", "false">>
TitleSort(way) == <<<<"epfl", "simple", "main", "snippetList", "sort">>, way, "false", "false">>

LinksLists ==
  { LinksList(NoSort, <<>>),
    LinksList(NoSort, <<LinkEntry(1, JahiaLink(1, GoneRef)), LinkEntry(0, JahiaUrl(2, OtherSite))>>),
    LinksList(NoSort, <<LinkEntry(0, JahiaLink(2, PageRef)), LinkEntry(1, JahiaUrl(1, OtherSite))>>),
    LinksList(LinkSort("desc"),
              <<LinkEntry(0, JahiaLink(1, PageRef)), LinkEntry(0, JahiaLink(2, PageRef))>>),
    LinksList(LinkSort("asc"),
              <<LinkEntry(0, JahiaLink(1, PageRef)), LinkEntry(0, JahiaUrl(2, OtherSite))>>) }

\* ---- text boxes

TextTypes == {"epfl:textBox", "epfl:coloredTextBox", "epfl:oneColContainer"}

SingleText(type, text, hasFilesList, files, hasLinksList, links) ==
  Element(type, Absent,
          [text |-> text, hasFilesList |-> hasFilesList, files |-> files,
           hasLinksList |-> hasLinksList, links |-> links])

SingleTextCalls ==
  {Call(SingleText(t, f, FALSE, <<>>, FALSE, NoLinks), FALSE, FALSE) :
     t \in TextTypes, f \in Fragments}
  \cup {Call(SingleText("epfl:textBox", <<Txt("Hello")>>, TRUE, fs, TRUE, l), FALSE, FALSE) :
          fs \in {<<>>, <<DocPath, DeepPath>>}, l \in LinksLists}

Combo(text, jcr, ruleType, validFrom, validTo) ==
  [text |-> text, jcr |-> jcr, files |-> <<>>, links |-> NoLinks,
   ruleType |-> ruleType, validFrom |-> validFrom, validTo |-> validTo]

\* The text of the entry at position i
EntryText(i) == <<Txt("<p>"), Val(i), Txt("</p>")>>

ComboSort(way) == <<"created", way, "true", "true">>
ComboSorts == {NoSort, ComboSort("asc"), ComboSort("desc")}

MultiText(type, comboSort, combos) ==
  Element(type, Absent, [comboSort |-> comboSort, combos |-> combos])

\* Entries of which each is empty (and skipped before its sort value is
\* read) or has a text and a sort value of rank 0..MaxKey
EntryOptions ==
  {[empty |-> TRUE, jcr |-> 0]} \cup {[empty |-> FALSE, jcr |-> k] : k \in 0..MaxKey}

EntryChoices == UNION {[1..n -> EntryOptions] : n \in 0..MaxEntries}

SortedCombos(choice) ==
  [i \in DOMAIN choice |->
     Combo(IF choice[i].empty THEN <<>> ELSE EntryText(i), choice[i].jcr, "", NoDate, NoDate)]

Dates == {NoDate} \cup {DateTime(d, "08:00:00") : d \in 1..MaxDate}
RuleTypes == {"START_AND_END_DATE", ""}

MultiTextCalls ==
  {Call(MultiText("epfl:textBox", cs, SortedCombos(ch)), TRUE, FALSE) :
     cs \in ComboSorts, ch \in EntryChoices}
  \cup {Call(MultiText("epfl:textBox", NoSort,
                       <<Combo(EntryText(1), 0, rt, from, to), Combo(EntryText(2), 0, "", NoDate, NoDate)>>),
             TRUE, FALSE) :
          rt \in RuleTypes, from \in Dates, to \in Dates}
  \cup {Call(MultiText("epfl:coloredTextBox", NoSort,
                       <<[Combo(f, 0, "", NoDate, NoDate) EXCEPT !.files = <<DocPath>>, !.links = l]>>),
             TRUE, FALSE) :
          f \in {<<>>, <<Twitter(Attr(OtherSite)), Txt("&")>>}, l \in LinksLists}

\* ---- buttons and snippets

NoTag == [name |-> "", title |-> 0, ref |-> "", value |-> <<>>]

Button(label, value, tag, image, key) ==
  [label |-> label, value |-> value, tag |-> tag, image |-> image, key |-> key]

Buttons(type, sortHandler, buttons) ==
  Element(type, Absent, [sortHandler |-> sortHandler, buttons |-> buttons])

\* Big buttons of which each has a url tag with a title of rank 0..MaxKey
ButtonChoices == UNION {[1..n -> 0..MaxKey] : n \in 0..MaxEntries}

UrlButtons(choice) ==
  [i \in DOMAIN choice |-> Button(i, <<>>, JahiaUrl(choice[i], OtherSite), DeepPath, "")]

ButtonsCalls ==
  {Call(Buttons("epfl:bigButtonsBox", sh, UrlButtons(ch)), FALSE, FALSE) :
     sh \in {NoSort, UrlSort("asc"), UrlSort("desc")}, ch \in ButtonChoices}
  \cup {Call(Buttons("epfl:bigButtonsBox", NoSort,
                     <<Button(1, <<>>, t, <<>>, ""), Button(2, <<>>, NoTag, DocPath, "")>>),
             FALSE, FALSE) :
          t \in {JahiaLink(1, PageRef), JahiaLink(1, GoneRef)}}
  \cup {Call(Buttons("epfl:smallButtonsBox", sh,
                     <<Button(1, OtherSite, NoTag, <<>>, "forward")>>), FALSE, FALSE) :
          sh \in {NoSort, UrlSort("asc")}}

Snippet(sort, title, tag) ==
  [sort |-> sort, title |-> title, subtitle |-> 0, description |-> 1, image |-> DeepPath,
   bigImage |-> <<>>, enableImageZoom |-> "false", tag |-> tag]

Snippets(boxTitle, hasSnippetListList, sortHandler, hasUrlTag, snippets) ==
  Element("epfl:snippetsBox", boxTitle,
          [hasSnippetListList |-> hasSnippetListList, sortHandler |-> sortHandler,
           hasUrlTag |-> hasUrlTag, snippets |-> snippets])

SnippetsCalls ==
  {Call(Snippets(Absent, FALSE, NoSort, FALSE, <<>>), FALSE, FALSE)}
  \cup {Call(Snippets(bt, TRUE, sh,
                      TRUE, <<Snippet(Attr(2), 1, t), Snippet(s2, 2, JahiaUrl(1, OtherSite))>>),
             FALSE, FALSE) :
          bt \in {Absent, Attr(HelloWorld)}, sh \in {NoSort, TitleSort("desc")},
          t \in {JahiaLink(1, PageRef), JahiaLink(0, GoneRef)},
          s2 \in {Absent, Attr(0), Attr(1), Attr(2)}}

\* ---- the other box types

Query(names, value) == [n \in names |-> <<value>>]

PeopleUrl == <<"https", "://people.epfl.ch/cgi-bin/getProfiles?", "unit=x&", "tmpl=", "default">>
InfoscienceUrl == <<"https", "://infoscience.epfl.ch/", "search">>
ActuUrl == <<"https", "://actu.epfl.ch/", "webservice">>

\* Targets in which the pattern of a later branch follows that of an earlier one
PeopleNamingOthers ==
  <<"https", "://people.epfl.ch/cgi-bin/getProfiles?", "tmpl=", "x&u=",
    "://infoscience.epfl.ch/", "://actu.epfl.ch/">>
InfoscienceNamingActu == <<"https", "://infoscience.epfl.ch/", "search?u=", "://actu.epfl.ch/">>

OtherCalls ==
  {Call(Element("epfl:peopleListBox", Absent,
                [templateKey |-> k, query |-> 1, function |-> f]), FALSE, FALSE) :
     k \in {"", "epfl_peopleListContainer.template.default_bloc",
            "epfl_peopleListContainer.template.default_list", "custom"},
     f \in {0, 1}}
  \cup {Call(Element(t, bt, [urls |-> us]), FALSE, FALSE) :
          t \in {"epfl:infoscienceBox", "epfl:infoscienceFilteredBox"}, bt \in BoxTitles,
          us \in {<<>>, <<InfoscienceUrl, OtherSite>>}}
  \cup {Call(Element("epfl:actuBox", bt,
                     [url |-> q, moreUrl |-> OtherSite, moreTitle |-> m,
                      rssUrl |-> r, rssTitle |-> 1]), FALSE, side) :
          bt \in {Absent, Attr(HelloWorld)},
          q \in {Query({"channel", "lang", "template"}, "ang"),
                 Query({"channel", "lang", "theme", "themes", "project"}, "fra"),
                 Query({"themes", "sticker", "category"}, "x"),
                 Query({"channel", "theme"}, "x")},
          m \in {0, 1}, r \in {<<>>, OtherSite}, side \in BOOLEAN}
  \cup {Call(Element("epfl:mementoBox", bt, [url |-> q]), FALSE, FALSE) :
          bt \in {Absent, Attr(HelloWorld)},
          q \in {Query({"memento", "lang", "template"}, "1"),
                 Query({"memento", "period", "color", "filters"}, "2"),
                 Query({"period", "category", "reorder"}, "1")}}
  \cup {Call(Element("epfl:faqBox", Absent, [entries |-> es]), FALSE, FALSE) :
          es \in {<<>>, <<[question |-> 1, answer |-> <<H3(Absent, TitleText(HelloWorld))>>],
                          [question |-> 0, answer |-> <<Img(Attr("left"), Absent)>>]>>}}
  \cup {Call(Element("epfl:toggleBox", bt, [opened |-> o, content |-> f]), FALSE, FALSE) :
          bt \in {Absent, Attr(HelloWorld)}, o \in {"true", "false"},
          f \in {<<Txt("Hello")>>, <<Iframe(Attr(Youtube))>>}}
  \cup {Call(Element("epfl:htmlBox", bt, [target |-> t, url |-> q, urls |-> <<t>>]),
             FALSE, FALSE) :
          bt \in {Absent, Attr(HelloWorld)},
          t \in {PeopleUrl, InfoscienceUrl, ActuUrl, OtherSite,
                 PeopleNamingOthers, InfoscienceNamingActu},
          q \in {Query({"channel", "lang", "template"}, "en"), Query({"themes"}, "x")}}
  \cup {Call(Element("epfl:contactBox", Absent, [contacts |-> c]), FALSE, FALSE) :
          c \in {<<>>, <<<<Txt("Hello")>>, <<Img(Attr("left"), Absent)>>>>}}
  \cup {Call(Element("epfl:xmlBox", Absent, [xml |-> x, xslt |-> 1]), FALSE, FALSE) :
          x \in {0, 1}}
  \cup {Call(Element("epfl:rssBox", Absent,
                     [feed |-> f, nbItems |-> n, hideTitle |-> h, detailItems |-> h]),
             FALSE, FALSE) :
          f \in {<<>>, OtherSite}, n \in {"3", ""}, h \in {"true", "false"}}
  \cup {Call(Element("epfl:linksBox", Absent, [links |-> l]), FALSE, FALSE) : l \in LinksLists}
  \cup {Call(Element("epfl:filesBox", Absent, [files |-> fs]), FALSE, FALSE) :
          fs \in {<<>>, <<DocPath>>, <<DocPath, DeepPath>>}}
  \cup {Call(Element("epfl:syntaxHighlightBox", Absent, [code |-> c]), FALSE, FALSE) :
          c \in {<<>>, <<Txt("&")>>}}
  \cup {Call(Element("epfl:keyVisualBox", Absent, [images |-> i]), FALSE, FALSE) :
          i \in {<<>>, <<DocPath, DeepPath>>}}
  \cup {Call(Element("epfl:mapBox", Absent, [query |-> q]), FALSE, FALSE) : q \in {0, 1}}
  \cup {Call(Element("epfl:gridBox", Absent, [cells |-> c]), FALSE, FALSE) :
          c \in {<<>>, <<[layout |-> "large", link |-> OtherSite, title |-> 1,
                          image |-> FromFiles(DeepPath)]>>}}
  \cup {Call(Element(t, Absent, <<>>), FALSE, FALSE) : t \in {"", "custom:box"}}

\* The constructions of a page whose boxes are in no sorted list
Calls == SingleTextCalls \cup MultiTextCalls \cup ButtonsCalls \cup SnippetsCalls \cup OtherCalls

\* ---- boxes in the sorted lists of a page

Uuids == {"uuid-list-1", "uuid-list-2"}
ListSorts == {SortSpec("created", "asc"), SortSpec("lastModified", "desc")}

MainList(uuid, sortHandler) == [nodeName |-> "mainList", sortHandler |-> sortHandler, uuid |-> uuid]

Parents ==
  {MainList("uuid-list-1", sh) : sh \in ListSorts}
  \cup {MainList(u, SortSpec("created", "asc")) : u \in Uuids}
  \cup {MainList("uuid-list-1", NoSort)}

InList(el, parent, created, lastModified) ==
  [el EXCEPT !.parent = parent,
             !.jcr = [a \in {"jcr:created"} \cup (IF lastModified = 0 THEN {} ELSE {"jcr:lastModified"})
                        |-> IF a = "jcr:created" THEN created ELSE lastModified]]

ListElements ==
  { Element("", Absent, <<>>),
    Element("custom:box", Absent, <<>>),
    Element("epfl:faqBox", Absent, [entries |-> <<>>]) }

ListCalls ==
  {Call(InList(el, p, c, m), FALSE, FALSE) :
     el \in ListElements, p \in Parents, c \in 0..MaxKey, m \in {0, 1}}

\* ------------------------------------------------------------ redirections

\* The text of an htaccess file is the sequence of its symbols: a marker line,
\* a line break, a word of a rule are one symbol each.  A substring test on a
\* text is a test on its symbols.

WP_REDIRECTS_AFTER_VENTILATION == "WordPress-Redirects-After-Ventilation"

\* "# BEGIN {}".format(marker) and "# END {}".format(marker)
StartMarker(marker) == "# BEGIN " \o marker
EndMarker(marker) == "# END " \o marker

Newline == "\n"

\* text.split(sep)[0]: the text before the first sep, all of it without sep
BeforeFirst(text, sep) ==
  IF Contains(text, sep)
  THEN SubSeq(text, 1, (CHOOSE i \in DOMAIN text :
                          text[i] = sep /\ \A j \in 1..(i - 1) : text[j] # sep) - 1)
  ELSE text

\* text.split(sep)[1], for a text that holds sep: the text between the first
\* sep and the one that follows it, or the end
SecondPart(text, sep) ==
  LET first == CHOOSE i \in DOMAIN text : text[i] = sep /\ \A j \in 1..(i - 1) : text[j] # sep
  IN BeforeFirst(SubSeq(text, first + 1, Len(text)), sep)

\* "\n".join(parts)
RECURSIVE JoinLines(_)
JoinLines(parts) ==
  IF parts = <<>> THEN <<>>
  ELSE IF Len(parts) = 1 THEN parts[1]
  ELSE parts[1] \o <<Newline>> \o JoinLines(Tail(parts))

\* extract_htaccess_part
extract_htaccess_part(content, marker) ==
  LET start_marker == StartMarker(marker)
      end_marker == EndMarker(marker)
  IN IF ~Contains(content, start_marker) /\ ~Contains(content, end_marker) THEN <<>>
     ELSE IF ~Contains(content, start_marker) THEN <<>>
     ELSE IF ~Contains(content, end_marker) THEN <<>>
     ELSE JoinLines(<<<<start_marker>>,
                      BeforeFirst(SecondPart(content, start_marker), end_marker),
                      <<end_marker>>>>)

\* The words that start with "wp-content/uploads/"
UploadsOfSource == "wp-content/uploads/2018/01/$1"
UploadsPaths == {UploadsOfSource}

\* 'wp-content/uploads/2018/' + month + '/$2'
UploadsOfMonth(month) == "wp-content/uploads/2018/" \o month \o "/$2"

\* text.replace(old, new).  With the empty string as old (here <<>>), new is
\* put in front of every symbol and at the end.
RECURSIVE Replace(_, _, _)
Replace(text, old, new) ==
  IF old = <<>>
  THEN IF text = <<>> THEN <<new>> ELSE <<new, Head(text)>> \o Replace(Tail(text), old, new)
  ELSE [i \in DOMAIN text |-> IF <<text[i]>> = old THEN new ELSE text[i]]

\* update_uploads_path.  directory_path is the answer of the destination site
\* to get_directory_path_contains, split at "/": [raised, text]
update_uploads_path(jahia_files_redirect, directory_path) ==
  LET found == {i \in DOMAIN jahia_files_redirect : jahia_files_redirect[i] \in UploadsPaths}
      remote_uploads_dir_path ==
        IF found = {} THEN <<>>
        ELSE <<jahia_files_redirect[CHOOSE i \in found : \A j \in found : i <= j]>>
  IN IF Len(directory_path) < 2 THEN [raised |-> TRUE, text |-> <<>>]
     ELSE [raised |-> FALSE,
           text |-> Replace(jahia_files_redirect, remote_uploads_dir_path,
                            UploadsOfMonth(directory_path[Len(directory_path) - 1]))]

\* get_jahia_redirections: [raised, text]
get_jahia_redirections(content, directory_path) ==
  LET jahia_page_redirect == extract_htaccess_part(content, "Jahia-Page-Redirect")
      jahia_files_redirect ==
        update_uploads_path(extract_htaccess_part(content, "Jahia-Files-Redirect"),
                            directory_path)
  IN IF jahia_files_redirect.raised THEN [raised |-> TRUE, text |-> <<>>]
     ELSE [raised |-> FALSE,
           text |-> JoinLines(<<jahia_page_redirect, jahia_files_redirect.text>>)]

\* Whether the source site is of the test infrastructure
IsMigrationSite(source_site_url) == source_site_url = "https://migration-wp.epfl.ch/mysite"

\* source_site.wp_path, with "/" in front
WpPath == "/mysite/"

\* The content _copy_jahia_redirections extracts the redirections from
\* (lines 125-136)
SourceSiteContent(source_site_url, content) ==
  IF IsMigrationSite(source_site_url) THEN Replace(content, <<WpPath>>, "/") ELSE content

\* The destination keeps none of its previous content.
new_destination_content_alone(jahia_redirections_content, destination_site_content) ==
  jahia_redirections_content

\* "\n".join([jahia_redirections_content, destination_site_content]) (line 145)
new_destination_content(jahia_redirections_content, destination_site_content) ==
  JoinLines(<<jahia_redirections_content, destination_site_content>>)

\* A python value of _update_redirections: a str or a tuple of str
StrValue(s) == [kind |-> "str", v |-> s]
TupleValue(items) == [kind |-> "tuple", v |-> items]

\* a += b: [raised, value].  A tuple and a str do not add up (TypeError).
PlusEq(a, b) ==
  IF a.raised THEN a
  ELSE IF a.value.kind # b.kind THEN [raised |-> TRUE, value |-> a.value]
  ELSE [raised |-> FALSE,
        value |-> [kind |-> a.value.kind, v |-> a.value.v \o b.v]]

\* The lines of the block that redirects the source site to the destination
RewriteCond(source_site_url) == "RewriteCond %{HTTP_HOST} ^" \o source_site_url \o "$ [NC]"
RewriteRule(destination_site_url) ==
  "RewriteRule ^(.*)$ " \o destination_site_url \o "$1 [L,QSA,R=301]"

\* new_content of _update_redirections (lines 162-165): the first three
\* lines end with a comma and are tuples, the last one is a str
NewContent(source_site_url, destination_site_url) ==
  PlusEq(PlusEq(PlusEq([raised |-> FALSE,
                        value |-> TupleValue(<<StartMarker(WP_REDIRECTS_AFTER_VENTILATION)>>)],
                       TupleValue(<<RewriteCond(source_site_url)>>)),
                TupleValue(<<RewriteRule(destination_site_url)>>)),
         StrValue(<<EndMarker(WP_REDIRECTS_AFTER_VENTILATION)>>))

\* The content is written whether the backup was created or not.
update_without_backup(is_backup_created, source_site_url, destination_site_url) ==
  [raised |-> FALSE, written |-> TRUE,
   content |-> <<StartMarker(WP_REDIRECTS_AFTER_VENTILATION), RewriteCond(source_site_url),
                 RewriteRule(destination_site_url),
                 EndMarker(WP_REDIRECTS_AFTER_VENTILATION)>>]

\* _update_redirections after create_htaccess_backup: whether it raised,
\* whether it wrote the htaccess of the source site, and the content written
_update_redirections(is_backup_created, source_site_url, destination_site_url) ==
  IF ~is_backup_created THEN [raised |-> FALSE, written |-> FALSE, content |-> <<>>]
  ELSE LET new_content == NewContent(source_site_url, destination_site_url)
       IN IF new_content.raised THEN [raised |-> TRUE, written |-> FALSE, content |-> <<>>]
          ELSE [raised |-> FALSE, written |-> TRUE, content |-> new_content.value.v]

\* ------------------------------------------------------------ state machine

\* site.pages_by_uuid: the page registry, the pid of each registered page
pages_by_uuid == [ref \in {PageRef} |-> 116974]

VARIABLES
  box_sort_groups,  \* the page's cache of sort groups (Site.get_box_sort_group)
  shortcodes,       \* the site's shortcode registry (Site.register_shortcode)
  boxes,            \* the boxes constructed so far: the parent and the jcr
                    \* attributes of their element, and their sort_group
  nboxes,           \* the number of constructions started
  element,          \* the arguments of the construction in progress
  multibox,
  is_in_sidebar,
  box,              \* the fields of the box under construction
  locals,           \* of its transformer: the key map before sorting (held),
                    \* the keys in sorted order (order), the date read (today)
  pc,               \* the position of the construction
  step,             \* the post-processing step it is at
  trace,            \* the methods called on the box, in order
  pages,            \* the site's page registry (Site.pages_by_uuid)
  htaccess,         \* the htaccess file of the source and of the destination site
  backups,          \* the backups of the htaccess file of the source site
  command,          \* the command of manage_redirections.py and its arguments
  rpc,              \* the position of the command
  rlocals,          \* its local variables
  io                \* the calls made to the remote sites, in order

\* The state of the sites the redirections are managed on
rvars == <<htaccess, backups, command, rpc, rlocals, io>>

vars == <<box_sort_groups, shortcodes, boxes, nboxes, element, multibox, is_in_sidebar,
          box, locals, pc, step, trace, pages, htaccess, backups, command, rpc, rlocals, io>>

NoLocals == [held |-> EmptyMap, order |-> <<>>, today |-> 0]

\* The fields of a box as __init__ sets them before set_type
NewBoxFields(id) ==
  [id |-> id, type |-> "", shortcode_name |-> "", title |-> <<>>, content |-> <<>>,
   sort_group |-> 0, is_in_sidebar |-> FALSE]

\* The record kept of a constructed box
Constructed(el, b) ==
  [id |-> b.id, parent |-> el.parent, jcr |-> el.jcr, sort_group |-> b.sort_group]

\* The content is set whatever the type is.
AlwaysSetContent(type) == TRUE

\* if self.type: self.set_content(element, multibox)
ShouldSetContent(type) == type # ""

\* The left-align fix is called before the heading ids.
PostProcessingAlignFirst == <<"fix_video_iframes", "fix_img_align_left", "add_id_to_h3">>

\* The left-align fix is not called.
PostProcessingWithoutAlign == <<"fix_video_iframes", "add_id_to_h3">>

\* The calls that end set_content, in their order
PostProcessing == <<"fix_video_iframes", "add_id_to_h3", "fix_img_align_left">>

\* No command: the page of boxes is parsed without the redirections tool
NoCommand == [name |-> "", source_site_url |-> "", destination_site_url |-> ""]

NoRedirectionLocals ==
  [is_backup_created |-> FALSE, source_site_content |-> <<>>,
   jahia_redirections_content |-> <<>>, destination_site_content |-> <<>>]

NoRedirections ==
  /\ htaccess = [site \in {"source", "destination"} |-> <<>>]
  /\ backups = <<>>
  /\ command = NoCommand
  /\ rpc = "idle"
  /\ rlocals = NoRedirectionLocals
  /\ io = <<>>

\* No box is constructed yet
NoBoxes ==
  /\ box_sort_groups = EmptyCache
  /\ shortcodes = {}
  /\ boxes = <<>>
  /\ nboxes = 0
  /\ element = Element("", Absent, <<>>)
  /\ multibox = FALSE
  /\ is_in_sidebar = FALSE
  /\ box = NewBoxFields(0)
  /\ locals = NoLocals
  /\ pc = "idle"
  /\ step = 0
  /\ trace = <<>>
  /\ pages = pages_by_uuid

Init == NoRedirections /\ NoBoxes

\* Box.__init__ up to the call of set_content, for one of the calls
Construct(calls) ==
  /\ pc \in {"idle", "done"}
  /\ nboxes < MaxBoxes
  /\ \E c \in calls :
       LET type == set_type(c.el.primaryType)
           b == [NewBoxFields(nboxes + 1) EXCEPT
                   !.type = type,
                   !.title = IF c.el.boxTitle.has THEN c.el.boxTitle.v ELSE <<>>]
       IN /\ element' = c.el
          /\ multibox' = c.multibox
          /\ is_in_sidebar' = c.is_in_sidebar
          /\ box' = b
          /\ pc' = IF ShouldSetContent(type) THEN "set_sort_infos" ELSE "done"
          /\ boxes' = IF ShouldSetContent(type) THEN boxes
                      ELSE Append(boxes, Constructed(c.el, b))
  /\ nboxes' = nboxes + 1
  /\ locals' = NoLocals
  /\ step' = 0
  /\ trace' = <<>>
  /\ UNCHANGED <<box_sort_groups, shortcodes, pages>>
  /\ UNCHANGED rvars

\* A box of a page without sorted lists
NewBox == Construct(Calls)

\* A box of a page with sorted lists
NewListBox == Construct(ListCalls)

\* self.set_sort_infos(element)
SetSortInfos ==
  /\ pc = "set_sort_infos"
  /\ LET r == set_sort_infos(box_sort_groups, element, box.id)
     IN /\ box_sort_groups' = r.cache
        /\ box' = [box EXCEPT !.sort_group = r.sort_group]
  /\ pc' = "transform"
  /\ trace' = Append(trace, "set_sort_infos")
  /\ UNCHANGED <<shortcodes, boxes, nboxes, element, multibox, is_in_sidebar, locals, step,
                 pages>>
  /\ UNCHANGED rvars

\* The branch of set_content's dispatch taken for a type
Known(type) == type \in {types[raw] : raw \in DOMAIN types}

\* self.site.register_shortcode(...) for each of the shortcodes a transformer registers
RECURSIVE RegisterAll(_, _)
RegisterAll(registry, registered) ==
  IF registered = {} THEN registry
  ELSE LET shortcode == CHOOSE x \in registered : TRUE
       IN RegisterAll(register_shortcode(registry, shortcode), registered \ {shortcode})

\* The page registry is a dictionary that takes in the keys it is asked for.
pages_with_default(registry, reference) ==
  [ref \in DOMAIN registry \cup {reference} |->
     IF ref \in DOMAIN registry THEN registry[ref] ELSE 0]

\* The page registry after self.site.pages_by_uuid[reference] or
\* "uuid in self.site.pages_by_uuid": a read of the dictionary
pages_after_lookup(registry, reference) == registry

RECURSIVE LookupAll(_, _)
LookupAll(registry, references) ==
  IF references = <<>> THEN registry
  ELSE LookupAll(pages_after_lookup(registry, Head(references)), Tail(references))

\* The jahia:reference of the jahia:link tags in a sequence of entries
LinkReferences(entries) ==
  Flatten([i \in DOMAIN entries |->
             IF entries[i].tag.name = "jahia:link" THEN <<entries[i].tag.ref>> ELSE <<>>])

\* The references a transformer looks up in the page registry: those of the
\* links of a text or links box, of big buttons, and of the snippets
\* without external url
References(name, el, multi) ==
  CASE name = "set_box_text" /\ ~multi ->
         IF el.hasLinksList THEN LinkReferences(el.links.links) ELSE <<>>
    [] name = "set_box_text" /\ multi ->
         Flatten([i \in DOMAIN el.combos |-> LinkReferences(el.combos[i].links.links)])
    [] name = "set_box_links" -> LinkReferences(el.links.links)
    [] name = "set_box_buttons" ->
         IF el.primaryType = "epfl:smallButtonsBox" THEN <<>> ELSE LinkReferences(el.buttons)
    [] name = "set_box_snippets" ->
         IF el.hasSnippetListList /\ el.hasUrlTag
         THEN Flatten([i \in DOMAIN el.snippets |->
                         IF el.snippets[i].tag.name = "jahia:url" THEN <<>>
                         ELSE <<el.snippets[i].tag.ref>>])
         ELSE <<>>
    [] OTHER -> <<>>

\* The effect of a transformer on the box and on the registry
Apply(name, r, today) ==
  /\ pc = "transform"
  /\ box' = [box EXCEPT !.content = r.content, !.shortcode_name = r.shortcode_name]
  /\ shortcodes' = RegisterAll(shortcodes, r.registered)
  /\ locals' = [held |-> r.held, order |-> r.order, today |-> today]
  /\ pc' = IF r.raised THEN "raised" ELSE "post"
  /\ step' = IF r.raised THEN 0 ELSE 1
  /\ trace' = Append(trace, name)
  /\ pages' = LookupAll(pages, References(name, element, multibox))
  /\ UNCHANGED <<box_sort_groups, boxes, nboxes, element, multibox, is_in_sidebar>>
  /\ UNCHANGED rvars

\* Whether set_box_text reads the date: _set_scheduler_box with a date set
ReadsDate(el, multi) ==
  /\ multi
  /\ NeedsScheduler(el.combos)
  /\ \/ get_tag_attribute(el.combos, "validFrom", NoDate) # NoDate
     \/ get_tag_attribute(el.combos, "validTo", NoDate) # NoDate

SetBoxText ==
  /\ box.type \in {TYPE_TEXT, TYPE_COLORED_TEXT, TYPE_ONE_COL_CONTAINER}
  /\ IF ReadsDate(element, multibox)
     THEN \E now \in 1..MaxDate :
            Apply("set_box_text", set_box_text(pages, element, multibox, now), now)
     ELSE Apply("set_box_text", set_box_text(pages, element, multibox, 0), 0)

SetBoxPeopleList ==
  /\ box.type = TYPE_PEOPLE_LIST
  /\ Apply("set_box_people_list", set_box_people_list(element), 0)

SetBoxInfoscience ==
  /\ box.type \in {TYPE_INFOSCIENCE, TYPE_INFOSCIENCE_FILTER}
  /\ Apply("set_box_infoscience", set_box_infoscience(element, box.title), 0)

SetBoxActu ==
  /\ box.type = TYPE_ACTU
  /\ Apply("set_box_actu", set_box_actu(element, box.title, box.is_in_sidebar), 0)

SetBoxMemento ==
  /\ box.type = TYPE_MEMENTO
  /\ Apply("set_box_memento", set_box_memento(element), 0)

SetBoxFaq ==
  /\ box.type = TYPE_FAQ
  /\ Apply("set_box_faq", set_box_faq(element), 0)

SetBoxToggle ==
  /\ box.type = TYPE_TOGGLE
  /\ Apply("set_box_toggle", set_box_toggle(element, box.title), 0)

SetBoxInclude ==
  /\ box.type = TYPE_INCLUDE
  /\ Apply("set_box_include", set_box_include(element, box.title), 0)

SetBoxContact ==
  /\ box.type = TYPE_CONTACT
  /\ Apply("set_box_contact", set_box_contact(element), 0)

SetBoxXml ==
  /\ box.type = TYPE_XML
  /\ Apply("set_box_xml", set_box_xml(element), 0)

SetBoxLinks ==
  /\ box.type = TYPE_LINKS
  /\ Apply("set_box_links", set_box_links(pages, element), 0)

SetBoxRss ==
  /\ box.type = TYPE_RSS
  /\ Apply("set_box_rss", set_box_rss(element), 0)

SetBoxFiles ==
  /\ box.type = TYPE_FILES
  /\ Apply("set_box_files", set_box_files(element), 0)

SetBoxButtons ==
  /\ box.type = TYPE_BUTTONS
  /\ Apply("set_box_buttons", set_box_buttons(pages, element), 0)

SetBoxSnippets ==
  /\ box.type = TYPE_SNIPPETS
  /\ Apply("set_box_snippets", set_box_snippets(pages, element, box.title), 0)

SetBoxSyntaxHighlight ==
  /\ box.type = TYPE_SYNTAX_HIGHLIGHT
  /\ Apply("set_box_syntax_highlight", set_box_syntax_highlight(element), 0)

SetBoxKeyVisuals ==
  /\ box.type = TYPE_KEY_VISUAL
  /\ Apply("set_box_key_visuals", set_box_key_visuals(element), 0)

SetBoxMap ==
  /\ box.type = TYPE_MAP
  /\ Apply("set_box_map", set_box_map(element), 0)

SetBoxGrid ==
  /\ box.type = TYPE_GRID
  /\ Apply("set_box_grid", set_box_grid(element), 0)

SetBoxUnknown ==
  /\ ~Known(box.type)
  /\ Apply("set_box_unknown", set_box_unknown(element), 0)

\* One of the calls that end set_content; the last one ends the construction.
PostStep(name, fixed) ==
  /\ pc = "post"
  /\ step <= Len(PostProcessing)
  /\ PostProcessing[step] = name
  /\ box' = [box EXCEPT !.content = fixed]
  /\ trace' = Append(trace, name)
  /\ step' = step + 1
  /\ pc' = IF step = Len(PostProcessing) THEN "done" ELSE "post"
  /\ boxes' = IF step = Len(PostProcessing) THEN Append(boxes, Constructed(element, box))
              ELSE boxes
  /\ UNCHANGED <<box_sort_groups, shortcodes, nboxes, element, multibox, is_in_sidebar, locals,
                 pages>>
  /\ UNCHANGED rvars

FixVideoIframes == PostStep("fix_video_iframes", fix_video_iframes(box.content))

AddIdToH3 == PostStep("add_id_to_h3", add_id_to_h3(box.content))

FixImgAlignLeft == PostStep("fix_img_align_left", fix_img_align_left(box.content))

Next ==
  \/ NewBox
  \/ SetSortInfos
  \/ SetBoxText
  \/ SetBoxPeopleList
  \/ SetBoxInfoscience
  \/ SetBoxActu
  \/ SetBoxMemento
  \/ SetBoxFaq
  \/ SetBoxToggle
  \/ SetBoxInclude
  \/ SetBoxContact
  \/ SetBoxXml
  \/ SetBoxLinks
  \/ SetBoxRss
  \/ SetBoxFiles
  \/ SetBoxButtons
  \/ SetBoxSnippets
  \/ SetBoxSyntaxHighlight
  \/ SetBoxKeyVisuals
  \/ SetBoxMap
  \/ SetBoxGrid
  \/ SetBoxUnknown
  \/ FixVideoIframes
  \/ AddIdToH3
  \/ FixImgAlignLeft

\* The pass over a page whose boxes are in no sorted list
Spec == Init /\ [][Next]_vars

NextList ==
  \/ NewListBox
  \/ SetSortInfos
  \/ SetBoxFaq
  \/ SetBoxUnknown
  \/ FixVideoIframes
  \/ AddIdToH3
  \/ FixImgAlignLeft

\* The pass over a page whose boxes are in sorted lists
SpecList == Init /\ [][NextList]_vars

\* ---- manage_redirections.py

PageMarker == "Jahia-Page-Redirect"
FilesMarker == "Jahia-Files-Redirect"

\* The htaccess files the source site may have: every text of at most
\* MaxContent symbols among the two page markers and a rule, a file with the
\* page and the files section of a Jahia site, and a files section without
\* uploads path
ContentSymbols == {StartMarker(PageMarker), EndMarker(PageMarker), "rule"}

SmallContents == UNION {[1..n -> ContentSymbols] : n \in 0..MaxContent}

JahiaContent ==
  <<StartMarker(PageMarker), Newline, "RewriteRule", WpPath, "page-1.html", Newline,
    EndMarker(PageMarker), Newline,
    StartMarker(FilesMarker), Newline, "RewriteRule", "^files/(.*)$", UploadsOfSource, Newline,
    EndMarker(FilesMarker), Newline, "# BEGIN WordPress">>

FilesWithoutUploads == <<StartMarker(FilesMarker), "rule", EndMarker(FilesMarker)>>

SourceContents == SmallContents \cup {JahiaContent, FilesWithoutUploads}

WordPressContent == <<"# BEGIN WordPress", Newline, "wp-rule", Newline, "# END WordPress">>

DestinationContents == {<<>>, WordPressContent}

SourceSiteUrls == {"https://migration-wp.epfl.ch/mysite", "https://www.epfl.ch/labs/x"}
DestinationSiteUrl == "https://dcsl.epfl.ch"

\* The answers of the destination site to get_directory_path_contains, split
\* at "/": the directory of a month, and no output
DirectoryPaths == {<<"", "srv", "wp-content", "uploads", "2018", "04", "">>, <<"">>}

InitRedirections ==
  /\ NoBoxes
  /\ htaccess \in {[site \in {"source", "destination"} |->
                      IF site = "source" THEN s ELSE d] :
                     s \in SourceContents, d \in DestinationContents}
  /\ backups = <<>>
  /\ command = NoCommand
  /\ rpc = "idle"
  /\ rlocals = NoRedirectionLocals
  /\ io = <<>>

\* A call to a remote site
Remote(op, site) == [op |-> op, site |-> site]

\* The dispatch of a command with its arguments
Dispatch(name, first) ==
  /\ rpc = "idle"
  /\ \E source_site_url \in SourceSiteUrls :
       command' = [name |-> name, source_site_url |-> source_site_url,
                   destination_site_url |-> DestinationSiteUrl]
  /\ rpc' = first
  /\ UNCHANGED <<htaccess, backups, rlocals, io>>
  /\ UNCHANGED <<box_sort_groups, shortcodes, boxes, nboxes, element, multibox, is_in_sidebar,
                 box, locals, pc, step, trace, pages>>

\* update_redirections
UpdateRedirections == Dispatch("update-redirections", "create_htaccess_backup")

\* is_backup_created = source_site.create_htaccess_backup(): the site answers
\* whether it made the backup
CreateHtaccessBackup ==
  /\ rpc = "create_htaccess_backup"
  /\ \E ok \in BOOLEAN :
       /\ backups' = IF ok THEN Append(backups, htaccess["source"]) ELSE backups
       /\ rlocals' = [rlocals EXCEPT !.is_backup_created = ok]
  /\ io' = Append(io, Remote("create_htaccess_backup", "source"))
  /\ rpc' = "new_content"
  /\ UNCHANGED <<htaccess, command>>
  /\ UNCHANGED <<box_sort_groups, shortcodes, boxes, nboxes, element, multibox, is_in_sidebar,
                 box, locals, pc, step, trace, pages>>

\* The rest of _update_redirections (lines 161-167)
WriteRedirections ==
  /\ rpc = "new_content"
  /\ LET r == _update_redirections(rlocals.is_backup_created, command.source_site_url,
                                   command.destination_site_url)
     IN /\ htaccess' = IF r.written THEN [htaccess EXCEPT !["source"] = r.content]
                       ELSE htaccess
        /\ io' = IF r.written THEN Append(io, Remote("write_htaccess_content", "source"))
                 ELSE io
        /\ rpc' = IF r.raised THEN "raised" ELSE "done"
  /\ UNCHANGED <<backups, command, rlocals>>
  /\ UNCHANGED <<box_sort_groups, shortcodes, boxes, nboxes, element, multibox, is_in_sidebar,
                 box, locals, pc, step, trace, pages>>

\* copy_jahia_redirections
CopyJahiaRedirections == Dispatch("copy-jahia-redirections", "source_site_content")

\* source_site_content = source_site.get_htaccess_content(), and the site
\* name taken out of it (lines 125-136)
ReadSource ==
  /\ rpc = "source_site_content"
  /\ rlocals' = [rlocals EXCEPT !.source_site_content =
                   SourceSiteContent(command.source_site_url, htaccess["source"])]
  /\ io' = Append(io, Remote("get_htaccess_content", "source"))
  /\ rpc' = "get_jahia_redirections"
  /\ UNCHANGED <<htaccess, backups, command>>
  /\ UNCHANGED <<box_sort_groups, shortcodes, boxes, nboxes, element, multibox, is_in_sidebar,
                 box, locals, pc, step, trace, pages>>

\* jahia_redirections_content = get_jahia_redirections(...), with the answer
\* of the destination site about its uploads directory
GetJahiaRedirections ==
  /\ rpc = "get_jahia_redirections"
  /\ \E directory_path \in DirectoryPaths :
       LET r == get_jahia_redirections(rlocals.source_site_content, directory_path)
       IN /\ rlocals' = [rlocals EXCEPT !.jahia_redirections_content = r.text]
          /\ rpc' = IF r.raised THEN "raised" ELSE "destination_site_content"
  /\ io' = io \o <<Remote("get_first_file_name", "source"),
                   Remote("get_directory_path_contains", "destination")>>
  /\ UNCHANGED <<htaccess, backups, command>>
  /\ UNCHANGED <<box_sort_groups, shortcodes, boxes, nboxes, element, multibox, is_in_sidebar,
                 box, locals, pc, step, trace, pages>>

\* destination_site_content = destination_site.get_htaccess_content()
ReadDestination ==
  /\ rpc = "destination_site_content"
  /\ rlocals' = [rlocals EXCEPT !.destination_site_content = htaccess["destination"]]
  /\ io' = Append(io, Remote("get_htaccess_content", "destination"))
  /\ rpc' = "write_htaccess_content"
  /\ UNCHANGED <<htaccess, backups, command>>
  /\ UNCHANGED <<box_sort_groups, shortcodes, boxes, nboxes, element, multibox, is_in_sidebar,
                 box, locals, pc, step, trace, pages>>

\* destination_site.write_htaccess_content(new_content)
WriteDestination ==
  /\ rpc = "write_htaccess_content"
  /\ htaccess' = [htaccess EXCEPT !["destination"] =
                    new_destination_content(rlocals.jahia_redirections_content,
                                            rlocals.destination_site_content)]
  /\ io' = Append(io, Remote("write_htaccess_content", "destination"))
  /\ rpc' = "done"
  /\ UNCHANGED <<backups, command, rlocals>>
  /\ UNCHANGED <<box_sort_groups, shortcodes, boxes, nboxes, element, multibox, is_in_sidebar,
                 box, locals, pc, step, trace, pages>>

NextRedirections ==
  \/ UpdateRedirections
  \/ CreateHtaccessBackup
  \/ WriteRedirections
  \/ CopyJahiaRedirections
  \/ ReadSource
  \/ GetJahiaRedirections
  \/ ReadDestination
  \/ WriteDestination

\* One run of manage_redirections.py on a source and a destination site
SpecRedirections == InitRedirections /\ [][NextRedirections]_vars

\* ------------------------------------------------------------------ claims

\* Whether some item of a fragment, at any depth, satisfies P
RECURSIVE Somewhere(_, _)
Somewhere(P(_), content) ==
  \E i \in DOMAIN content :
    \/ P(content[i])
    \/ content[i].k = "h3" /\ Somewhere(P, content[i].kids)

\* C1, as claimed: for every box whose transformer completes, the calls that
\* end its construction are the video iframe rewrite, then the left-align
\* fix, then the heading ids.
C1_OrderAsClaimed ==
  (pc = "done" /\ trace # <<>>) =>
    SubSeq(trace, Len(trace) - 2, Len(trace))
      = <<"fix_video_iframes", "fix_img_align_left", "add_id_to_h3">>

\* C1, amended: for every box whose transformer completes, the methods called
\* on it are set_sort_infos, its transformer, and then the video iframe
\* rewrite, the heading ids and the left-align fix, in this order; a box is
\* done only after the three of them.
C1_PostProcessingOrder ==
  LET fixes == <<"fix_video_iframes", "add_id_to_h3", "fix_img_align_left">>
  IN /\ pc = "post" =>
          /\ Len(trace) = step + 1
          /\ SubSeq(trace, 3, Len(trace)) = SubSeq(fixes, 1, step - 1)
     /\ (pc = "done" /\ trace # <<>>) =>
          /\ Len(trace) = 5
          /\ SubSeq(trace, 3, 5) = fixes

\* A box is done whose content the three fixes have all changed.
C1_Witness ==
  /\ pc = "done"
  /\ Len(trace) = 5
  /\ Somewhere(LAMBDA x : x.k = "h3" /\ x.id = Attr("news"), box.content)
  /\ Somewhere(LAMBDA x : x.k = "img" /\ x.class = Attr("left") /\ ~x.align.has, box.content)
  /\ Somewhere(LAMBDA x : x = Txt("[epfl_video"), box.content)
  /\ ~Somewhere(LAMBDA x : x.k = "iframe", box.content)

C6_TypeResolver ==
  LET raw == element.primaryType
      known == { <<"epfl:textBox", "text">>, <<"epfl:coloredTextBox", "coloredText">>,
                 <<"epfl:peopleListBox", "peopleList">>, <<"epfl:infoscienceBox", "infoscience">>,
                 <<"epfl:infoscienceFilteredBox", "infoscienceFilter">>,
                 <<"epfl:actuBox", "actu">>, <<"epfl:mementoBox", "memento">>,
                 <<"epfl:faqBox", "faq">>, <<"epfl:toggleBox", "toggle">>,
                 <<"epfl:htmlBox", "include">>, <<"epfl:contactBox", "contact">>,
                 <<"epfl:xmlBox", "xml">>, <<"epfl:linksBox", "links">>,
                 <<"epfl:rssBox", "rss">>, <<"epfl:filesBox", "files">>,
                 <<"epfl:bigButtonsBox", "buttons_box">>,
                 <<"epfl:smallButtonsBox", "buttons_box">>,
                 <<"epfl:snippetsBox", "snippets">>,
                 <<"epfl:syntaxHighlightBox", "syntaxHighlight">>,
                 <<"epfl:keyVisualBox", "keyVisual">>, <<"epfl:mapBox", "map">>,
                 <<"epfl:gridBox", "grid">>, <<"epfl:oneColContainer", "oneColContainer">> }
  IN nboxes > 0 =>
       /\ \A p \in known : raw = p[1] => box.type = p[2]
       /\ (raw # "" /\ \A p \in known : raw # p[1]) => box.type = raw
       /\ raw = "" => box.type = ""
       /\ trace = <<>> => pc \in {"set_sort_infos", "done"}

\* A box of a type outside the mapping is done, with the raw identifier as its type.
C6_Witness ==
  /\ pc = "done"
  /\ element.primaryType = "custom:box"
  /\ box.type = "custom:box"
  /\ box.content = <<Txt("["), Txt("custom:box"), Txt("]")>>

\* The transformer of the box in progress was this one, and it completed.
Completed(name) == pc \in {"post", "done"} /\ Len(trace) >= 2 /\ trace[2] = name

\* The greatest of a non-empty set of numbers
Last(S) == CHOOSE i \in S : \A j \in S : j <= i

\* C3, as claimed: the buttons of a buttons box are rendered in the order of
\* their keys, ascending or descending as the sort handler says, and buttons
\* of equal keys all appear, in the order of their insertion.
C3_TiesAsClaimed ==
  Completed("set_box_buttons") =>
    LET rendered == [j \in DOMAIN locals.order |-> locals.held[locals.order[j]].i]
        sorting == element.sortHandler # NoSort
        desc == sorting /\ element.sortHandler[2] = "desc"
        key(i) == IF sorting THEN element.buttons[i].tag.title ELSE i - 1
    IN /\ \A i \in DOMAIN element.buttons : \E j \in DOMAIN rendered : rendered[j] = i
       /\ \A j, l \in DOMAIN rendered :
            j < l => \/ (IF desc THEN key(rendered[j]) > key(rendered[l])
                                 ELSE key(rendered[j]) < key(rendered[l]))
                     \/ key(rendered[j]) = key(rendered[l]) /\ rendered[j] < rendered[l]

\* C3, amended: the buttons of a buttons box are rendered in the order of
\* their keys, strictly ascending or strictly descending as the sort handler
\* says (ascending by position without a sort handler); of the buttons of one
\* key only the one inserted last is rendered.
C3_SortedLastWins ==
  Completed("set_box_buttons") =>
    LET order == locals.order
        held == locals.held
        sorting == element.sortHandler # NoSort
        desc == sorting /\ element.sortHandler[2] = "desc"
        key(i) == IF sorting THEN StrKey(element.buttons[i].tag.title) ELSE IntKey(i - 1)
        box_type == IF element.primaryType = "epfl:smallButtonsBox" THEN "small" ELSE "big"
    IN /\ \A j \in 1..(Len(order) - 1) :
            IF desc THEN order[j].v > order[j + 1].v ELSE order[j].v < order[j + 1].v
       /\ {order[j] : j \in DOMAIN order} = {key(i) : i \in DOMAIN element.buttons}
       /\ \A j \in DOMAIN order :
            held[order[j]].i = Last({i \in DOMAIN element.buttons : key(i) = order[j]})
       /\ (pc = "post" /\ step = 1) =>
            box.content =
              <<Txt("[epfl_buttons_container]")>>
              \o Flatten([j \in DOMAIN order |->
                            ButtonContent(pages_by_uuid, box_type,
                                          element.buttons[held[order[j]].i])])
              \o <<Txt("[/epfl_buttons_container]")>>

\* A box of two buttons sorted by title, descending, is done: the second
\* button, of the greater title, is rendered first.
C3_Witness ==
  /\ pc = "done"
  /\ Completed("set_box_buttons")
  /\ element.sortHandler = UrlSort("desc")
  /\ Len(element.buttons) = 2
  /\ locals.order = <<StrKey(2), StrKey(1)>>
  /\ locals.held[StrKey(2)].i = 2

\* The entries of a combo-text box that are rendered (their content is not empty)
RenderedEntries(el) ==
  {i \in DOMAIN el.combos : ComboContent(pages_by_uuid, el.combos[i]).content # <<>>}

C8_FallbackForWholeSet ==
  (/\ Len(trace) >= 2
   /\ trace[2] = "set_box_text"
   /\ multibox
   /\ element.comboSort # NoSort
   /\ \E i \in RenderedEntries(element) : element.combos[i].jcr = 0) =>
    /\ pc # "raised"
    /\ DOMAIN locals.held = {IntKey(n) : n \in 0..(Cardinality(RenderedEntries(element)) - 1)}
    /\ locals.order = [j \in 1..Cardinality(RenderedEntries(element)) |-> IntKey(j - 1)]

\* The first entry of a combo-text box: the one whose dates and rule type are read
FirstCombo == element.combos[1]

\* C9: a combo-text box whose first entry has a start date before the date of
\* processing and no end date has the content of the same box with no dates:
\* no scheduler tag is in it.
C9_PastStartOnly ==
  (/\ Completed("set_box_text")
   /\ multibox
   /\ element.combos # <<>>
   /\ FirstCombo.validFrom # NoDate
   /\ FirstCombo.validTo = NoDate
   /\ (locals.today # 0 => FirstCombo.validFrom[1] < locals.today)) =>
    LET undated == [element EXCEPT !.combos[1].validFrom = NoDate]
    IN /\ ~Somewhere(LAMBDA x : x.k = "sched" \/ x = SchedulerClose, box.content)
       /\ (pc = "post" /\ step = 1) =>
            box.content = set_box_text(pages_by_uuid, undated, TRUE, locals.today).content

\* A scheduled combo-text box with a start date before the date of processing
\* and no end date is done, with the texts of its entries as its content.
C9_Witness ==
  /\ pc = "done"
  /\ Completed("set_box_text")
  /\ multibox
  /\ element.combos # <<>>
  /\ FirstCombo.ruleType = "START_AND_END_DATE"
  /\ FirstCombo.validFrom = DateTime(1, "08:00:00")
  /\ FirstCombo.validTo = NoDate
  /\ locals.today = 2
  /\ box.content = EntryText(1) \o EntryText(2)

\* C10, as claimed: a combo-text box whose first entry has an end date and no
\* start date is wrapped in a scheduler tag whose start date is the date of
\* processing and whose end date is the given one.
C10_EndOnlyAsClaimed ==
  (/\ Completed("set_box_text")
   /\ multibox
   /\ element.combos # <<>>
   /\ FirstCombo.validFrom = NoDate
   /\ FirstCombo.validTo # NoDate) =>
    /\ locals.today >= 1
    /\ Len(box.content) >= 2
    /\ box.content[1] = SchedulerOpen(locals.today, FirstCombo.validTo[1], "", FirstCombo.validTo[2])
    /\ box.content[Len(box.content)] = SchedulerClose

\* C10, amended: a combo-text box whose first entry has the rule type
\* START_AND_END_DATE, an end date and no start date is wrapped in a scheduler
\* tag whose start date is the date of processing and whose end date is the
\* given one; its shortcode name is epfl_scheduler.
C10_EndOnlyScheduled ==
  (/\ Completed("set_box_text")
   /\ multibox
   /\ element.combos # <<>>
   /\ FirstCombo.ruleType = "START_AND_END_DATE"
   /\ FirstCombo.validFrom = NoDate
   /\ FirstCombo.validTo # NoDate) =>
    /\ locals.today >= 1
    /\ Len(box.content) >= 2
    /\ box.content[1] = SchedulerOpen(locals.today, FirstCombo.validTo[1], "", FirstCombo.validTo[2])
    /\ box.content[Len(box.content)] = SchedulerClose
    /\ box.shortcode_name = "epfl_scheduler"
    /\ (pc = "post" /\ step = 1) =>
         SubSeq(box.content, 2, Len(box.content) - 1) = EntryText(1) \o EntryText(2)

\* A scheduled combo-text box with an end date only is done, on day 3: its
\* content is wrapped, from day 3 to the end date.
C10_Witness ==
  /\ pc = "done"
  /\ Completed("set_box_text")
  /\ multibox
  /\ element.combos # <<>>
  /\ FirstCombo.ruleType = "START_AND_END_DATE"
  /\ FirstCombo.validFrom = NoDate
  /\ FirstCombo.validTo = DateTime(1, "08:00:00")
  /\ locals.today = 3
  /\ box.content[1] = SchedulerOpen(3, 1, "", "08:00:00")

\* The boxes that went through set_sort_infos: the constructed ones and the
\* one in progress
BoxesSoFar ==
  boxes \o (IF pc \in {"transform", "post", "raised"} THEN <<Constructed(element, box)>>
            ELSE <<>>)

\* The boxes that refer to the group instance g
Members(g) == {i \in DOMAIN BoxesSoFar : BoxesSoFar[i].sort_group = g}

\* The value of the sort attribute of a box's element: the rank of its text
SortValueOf(b) ==
  LET attr == "jcr:" \o b.parent.sortHandler[1]
  IN IF attr \in DOMAIN b.jcr THEN b.jcr[attr] ELSE 0

\* Boxes refer to one group instance exactly when their parents have the same
\* uuid and the same sort handler, and only boxes of a sorted mainList refer
\* to a group.
SameKeySameGroup ==
  /\ \A i \in DOMAIN BoxesSoFar :
       BoxesSoFar[i].sort_group # 0 =>
         /\ BoxesSoFar[i].parent.nodeName = "mainList"
         /\ BoxesSoFar[i].parent.sortHandler # NoSort
         /\ BoxesSoFar[i].sort_group \in DOMAIN box_sort_groups.groups
  /\ \A i, j \in DOMAIN BoxesSoFar :
       (BoxesSoFar[i].sort_group # 0 /\ BoxesSoFar[j].sort_group # 0) =>
         (BoxesSoFar[i].sort_group = BoxesSoFar[j].sort_group
            <=> /\ BoxesSoFar[i].parent.uuid = BoxesSoFar[j].parent.uuid
                /\ BoxesSoFar[i].parent.sortHandler = BoxesSoFar[j].parent.sortHandler)

C7_TypelessNoOp ==
  [][/\ (nboxes' = nboxes + 1 /\ element'.primaryType = "") =>
          /\ pc' = "done"
          /\ box'.type = ""
          /\ box'.content = <<>>
          /\ box'.shortcode_name = ""
          /\ box'.sort_group = 0
          /\ trace' = <<>>
          /\ box_sort_groups' = box_sort_groups
          /\ shortcodes' = shortcodes
     /\ (nboxes > 0 /\ element.primaryType = "") => nboxes' = nboxes + 1]_vars

\* A typeless box of a sorted list is constructed after a faq box of the same
\* list: the list's group holds the faq box only.
C7_Witness ==
  /\ pc = "done"
  /\ nboxes = 2
  /\ element.primaryType = ""
  /\ element.parent = boxes[1].parent
  /\ element.parent.sortHandler # NoSort
  /\ boxes[1].sort_group = 1
  /\ boxes[2].sort_group = 0
  /\ box.content = <<>>
  /\ shortcodes = {Shortcode("epfl_faqItem", <<"link", "image">>)}
  /\ Cardinality(DOMAIN box_sort_groups.groups[1].boxes) = 1

\* The list items of a links list, counted by their opening markup
ListItems(content) ==
  {i \in DOMAIN content : content[i] = Txt("<li><a href=\"")}

\* Whether an entry of a links list refers to a page the registry does not hold
Unresolved(e) == e.tag.name = "jahia:link" /\ e.tag.ref \notin DOMAIN pages_by_uuid

\* C11, as claimed: a links list without sort handler raises nothing and
\* renders one list item for every entry but those whose internal page uuid
\* is not in the page registry, which produce no item.
C11_UnresolvedEntrySkipped ==
  (/\ Len(trace) >= 2
   /\ trace[2] = "set_box_links"
   /\ element.links.sortHandler = NoSort) =>
    /\ pc # "raised"
    /\ Cardinality(ListItems(box.content))
         = Cardinality({i \in DOMAIN element.links.links :
                          ~Unresolved(element.links.links[i])})

\* Whether a button has no sort value under a sort handler: the tag the
\* handler names is missing, or its jahia:title is empty
NoSortValue(sort_params, b) ==
  b.tag.name # SortTagName(sort_params) \/ b.tag.title = 0

\* C12: a buttons box with a sort handler of which a button has no sort value
\* raises, and the content of the box is still empty: no button is emitted,
\* not even one that precedes the faulty button.
C12_MissingSortValueRaises ==
  (/\ Len(trace) >= 2
   /\ trace[2] = "set_box_buttons"
   /\ element.sortHandler # NoSort
   /\ \E i \in DOMAIN element.buttons : NoSortValue(element.sortHandler, element.buttons[i])) =>
    /\ pc = "raised"
    /\ box.content = <<>>
    /\ trace = <<"set_sort_infos", "set_box_buttons">>

\* A sorted buttons box has raised at its second button: the first button,
\* which has a sort value, was held in the group and is not in the content.
C12_Witness ==
  /\ pc = "raised"
  /\ Len(trace) >= 2
  /\ trace[2] = "set_box_buttons"
  /\ element.sortHandler # NoSort
  /\ Len(element.buttons) = 2
  /\ ~NoSortValue(element.sortHandler, element.buttons[1])
  /\ NoSortValue(element.sortHandler, element.buttons[2])
  /\ DOMAIN locals.held = {StrKey(element.buttons[1].tag.title)}
  /\ box.content = <<>>

\* The button shortcodes of a content, counted by their opening markup
ButtonShortcodes(content) ==
  {i \in DOMAIN content : content[i] = Txt("[epfl_buttons type=\"")}

\* Whether the link of a big button refers to a page the registry does not hold
UnresolvedButton(b) == b.tag.name = "jahia:link" /\ b.tag.ref \notin DOMAIN pages_by_uuid

\* C13, as claimed: a big buttons box without sort handler raises nothing and
\* renders one button shortcode for every button but those whose internal
\* link refers to a uuid absent from the page registry, which are skipped.
C13_UnresolvedButtonSkipped ==
  (/\ Len(trace) >= 2
   /\ trace[2] = "set_box_buttons"
   /\ element.primaryType = "epfl:bigButtonsBox"
   /\ element.sortHandler = NoSort) =>
    /\ pc # "raised"
    /\ Cardinality(ButtonShortcodes(box.content))
         = Cardinality({i \in DOMAIN element.buttons : ~UnresolvedButton(element.buttons[i])})

\* The snippet shortcodes of a content, counted by their opening markup
SnippetShortcodes(content) ==
  {i \in DOMAIN content : content[i] = Txt("[epfl_snippets url=\"")}

\* C14: a snippets box with a sort handler of which a snippet has no sort tag
\* or an empty sort value does not raise; every snippet is keyed by its
\* insertion index, the indexes are distinct, and each of the n snippets is
\* rendered exactly once.
C14_SnippetsFallBackToIndex ==
  (/\ Len(trace) >= 2
   /\ trace[2] = "set_box_snippets"
   /\ element.hasSnippetListList
   /\ element.sortHandler # NoSort
   /\ \E i \in DOMAIN element.snippets :
        ~element.snippets[i].sort.has \/ element.snippets[i].sort = Attr(0)) =>
    LET n == Len(element.snippets)
    IN /\ pc # "raised"
       /\ DOMAIN locals.held = {IntKey(i - 1) : i \in 1..n}
       /\ \A i \in 1..n :
            locals.held[IntKey(i - 1)]
              = [i |-> i, c |-> SnippetContent(pages_by_uuid, element.hasUrlTag,
                                               element.snippets[i])]
       /\ Len(locals.order) = n
       /\ {locals.order[j] : j \in 1..n} = DOMAIN locals.held
       /\ Cardinality(SnippetShortcodes(box.content)) = n

\* A snippets box sorted by title, descending, is done: its second snippet
\* has an empty sort value, and both snippets are rendered under index keys.
C14_Witness ==
  /\ pc = "done"
  /\ Completed("set_box_snippets")
  /\ element.sortHandler = TitleSort("desc")
  /\ Len(element.snippets) = 2
  /\ element.snippets[1].sort = Attr(2)
  /\ element.snippets[2].sort = Attr(0)
  /\ locals.order = <<IntKey(1), IntKey(0)>>
  /\ Cardinality(SnippetShortcodes(box.content)) = 2

\* The names on the video-host allow-list (line 1387)
VideoHosts == {"youtube.com", "youtu.be", "player.vimeo.com"}

\* The pieces of the URLs that begin a path or a query
PathPieces == {"/embed/xyz", "/video/1", "/map", "/?u="}

\* The host of a URL: its pieces after the scheme, up to the path
Host(url) ==
  {url[i] : i \in {j \in 2..Len(url) : \A k \in 2..j : url[k] \notin PathPieces}}

HostOnAllowList(src) == src.has /\ Host(src.v) \cap VideoHosts # {}

\* The rewrite of the iframes whose host is on the allow-list, and of no other
RECURSIVE ReplaceByHost(_)
ReplaceByHost(tree) ==
  IF tree = <<>> THEN <<>>
  ELSE LET x == Head(tree)
           y == CASE x.k = "iframe" ->
                       IF HostOnAllowList(x.src) THEN VideoShortcode(x.src.v) ELSE <<x>>
                  [] x.k = "h3" -> <<H3(x.id, ReplaceByHost(x.kids))>>
                  [] OTHER -> <<x>>
       IN y \o ReplaceByHost(Tail(tree))

\* C15, as claimed: the video rewrite replaces an iframe by one video
\* shortcode with its src if and only if the host of the src is on the
\* allow-list; an iframe of another host is left untouched, also when a name
\* of the list occurs elsewhere in its URL.
C15_RewrittenIffHostAllowed ==
  [][FixVideoIframes =>
       box'.content = Serialize(ReplaceByHost(Parse(box.content)))]_vars

\* C16: the heading id injection sets the id slugify(text) on exactly the h3
\* elements that have text and no id; an h3 with an id or without text, and
\* everything that is not an h3, is left as it was; headings of the same text
\* get the same id.
C16_IdOnTextWithoutId ==
  [][AddIdToH3 =>
       LET before == Parse(box.content)
           after == Parse(box'.content)
       IN /\ Len(after) = Len(before)
          /\ \A i \in DOMAIN before :
               IF before[i].k = "h3" /\ TextOf(before[i].kids) # <<>> /\ ~before[i].id.has
               THEN after[i] = H3(Attr(slugify(TextOf(before[i].kids))), before[i].kids)
               ELSE after[i] = before[i]]_vars

\* The ids have been injected in a text of two headings "News" without id:
\* both have the id "news".
C16_Witness ==
  /\ Len(trace) >= 4
  /\ trace[4] = "add_id_to_h3"
  /\ trace[2] = "set_box_text"
  /\ ~multibox
  /\ element.text = <<H3(Absent, <<Txt("News")>>), H3(Absent, <<Txt("News")>>)>>
  /\ box.content = <<H3(Attr("news"), <<Txt("News")>>), H3(Attr("news"), <<Txt("News")>>)>>

\* Whether a path has the form /content/sites/<site>/files/...
IsRepositoryPath(path) ==
  /\ Len(path) >= 6
  /\ SubSeq(path, 1, 3) = <<"", "content", "sites">>
  /\ path[5] = "files"

\* The list item the claim describes for a repository path: a link to the
\* path from /files on, with the last segment as its text
ClaimedFileItem(path) ==
  <<Txt("<li><a href=\"")>>
  \o Flatten([k \in 1..(Len(path) - 4) |-> <<Txt("/"), Txt(path[k + 4])>>])
  \o <<Txt("\">"), Txt(path[Len(path)]), Txt("</a></li>")>>

\* C17: the content of a files box is one list item per file, in document
\* order, each a link to the path without its four-segment prefix with the
\* last segment as text, in one list; without file the content is empty.
C17_FilesListed ==
  (/\ Completed("set_box_files")
   /\ \A i \in DOMAIN element.files : IsRepositoryPath(element.files[i])) =>
    box.content = IF element.files = <<>> THEN <<>>
                  ELSE <<Txt("<ul>")>>
                       \o Flatten([i \in DOMAIN element.files |->
                                     ClaimedFileItem(element.files[i])])
                       \o <<Txt("</ul>")>>

\* A files box of two files, one of them in a folder, is done.
C17_Witness ==
  /\ pc = "done"
  /\ Completed("set_box_files")
  /\ element.files = <<DocPath, DeepPath>>
  /\ box.content
       = <<Txt("<ul>"),
           Txt("<li><a href=\""), Txt("/"), Txt("files"), Txt("/"), Txt("doc.pdf"),
           Txt("\">"), Txt("doc.pdf"), Txt("</a></li>"),
           Txt("<li><a href=\""), Txt("/"), Txt("files"), Txt("/"), Txt("a"), Txt("/"),
           Txt("b.png"), Txt("\">"), Txt("b.png"), Txt("</a></li>"),
           Txt("</ul>")>>

\* Whether an item of a content is an h3 heading
IsHeading(x) == x.k = "h3"

\* C18, as claimed: the content of a news box constructed with is_in_sidebar
\* true has no h3 title heading, and the content of one constructed outside a
\* sidebar has the heading.
C18_SidebarSuppressesHeading ==
  Completed("set_box_actu") => (is_in_sidebar <=> ~Somewhere(IsHeading, box.content))

\* Whether a content holds a piece of text, at any depth
HasText(content, s) == Somewhere(LAMBDA x : x = Txt(s), content)

\* The branch of an include box the claim gives for a target url
IncludeBranch(target) ==
  CASE Contains(target, "://people.epfl.ch/cgi-bin/getProfiles?") -> "people"
    [] Contains(target, "://infoscience.epfl.ch/") -> "infoscience"
    [] Contains(target, "://actu.epfl.ch/") -> "news"
    [] OTHER -> "remote"

\* C19: an include box takes one branch, the first in the order profile
\* service, infoscience, news service, remote content whose pattern occurs in
\* the target url; the redirect resolver is used in the remote-content branch
\* only, and the profile-service branch emits the url with tmpl= rewritten
\* to tmpl=WP_.
C19_IncludeOneBranch ==
  (Len(trace) >= 2 /\ trace[2] = "set_box_include") =>
    LET branch == IncludeBranch(element.target)
    IN /\ HasText(box.content, "[epfl_people url=\"") <=> branch = "people"
       /\ box.shortcode_name = "epfl_people" <=> branch = "people"
       /\ box.shortcode_name = "epfl_infoscience" <=> branch = "infoscience"
       /\ HasText(box.content, "[epfl_infoscience url=\"") <=> branch = "infoscience"
       /\ box.shortcode_name = "epfl_news" <=> branch = "news"
       /\ HasText(box.content, "[epfl_news ") <=> (branch = "news" /\ pc # "raised")
       /\ HasText(box.content, "[remote_content url=\"") <=> branch = "remote"
       /\ HasText(box.content, "redirected:") <=> branch = "remote"
       /\ branch = "people" =>
            /\ HasText(box.content, "tmpl=WP_")
            /\ ~HasText(box.content, "tmpl=")

\* An include box whose target is a profile-service url that also names
\* infoscience and the news service is done: it is a people shortcode.
C19_Witness ==
  /\ pc = "done"
  /\ Completed("set_box_include")
  /\ element.target = PeopleNamingOthers
  /\ box.shortcode_name = "epfl_people"
  /\ box.content
       = <<Txt("[epfl_people url=\""), Txt("https"),
           Txt("://people.epfl.ch/cgi-bin/getProfiles?"), Txt("tmpl=WP_"), Txt("x&u="),
           Txt("://infoscience.epfl.ch/"), Txt("://actu.epfl.ch/"), Txt("\" /]")>>

\* Whether an item of a content is the opening tag of the scheduler shortcode
IsSchedulerOpen(x) == x.k = "sched"

\* C20, as claimed: a constructed combo-text box has the shortcode name
\* epfl_scheduler if and only if its content is wrapped in the scheduler
\* shortcode; a box whose wrapper is omitted has an empty shortcode name.
C20_SchedulerNameIffWrapped ==
  (pc = "done" /\ Completed("set_box_text") /\ multibox) =>
    /\ box.shortcode_name \in {"", "epfl_scheduler"}
    /\ box.shortcode_name = "epfl_scheduler" <=> Somewhere(IsSchedulerOpen, box.content)

\* The calls to the remote sites made so far that write an htaccess file
Writes(site) == {i \in DOMAIN io : io[i] = Remote("write_htaccess_content", site)}

\* C21: update-redirections writes the htaccess of the source site only after
\* create_htaccess_backup has answered that the backup is made: a write in
\* the calls of the run follows a successful backup, and as long as there
\* is no backup the content of the file does not change.
C21_WriteOnlyAfterBackup ==
  command.name = "update-redirections" =>
    /\ \A i \in Writes("source") :
         /\ rlocals.is_backup_created
         /\ backups # <<>>
         /\ \E j \in 1..(i - 1) : io[j] = Remote("create_htaccess_backup", "source")
    /\ backups = <<>> =>
         /\ Writes("source") = {}
         /\ \E s \in SourceContents : htaccess["source"] = s

\* update-redirections has ended after the source site answered that it made
\* no backup: nothing is written.
C21_Witness ==
  /\ command.name = "update-redirections"
  /\ rpc = "done"
  /\ io = <<Remote("create_htaccess_backup", "source")>>
  /\ ~rlocals.is_backup_created
  /\ htaccess["source"] = JahiaContent

\* The block of the redirections after ventilation, as one text of lines
VentilationBlock(source_site_url, destination_site_url) ==
  <<StartMarker(WP_REDIRECTS_AFTER_VENTILATION), RewriteCond(source_site_url),
    RewriteRule(destination_site_url), EndMarker(WP_REDIRECTS_AFTER_VENTILATION)>>

\* C22, as claimed: when the backup is created, update-redirections ends
\* without error and the htaccess of the source site is the block between
\* the BEGIN and END WordPress-Redirects-After-Ventilation markers with the
\* host condition of the source site and the 301 rule to the destination.
C22_BlockWritten ==
  (/\ command.name = "update-redirections"
   /\ rpc \in {"done", "raised"}
   /\ rlocals.is_backup_created) =>
    /\ rpc = "done"
    /\ htaccess["source"]
         = VentilationBlock(command.source_site_url, command.destination_site_url)

\* Whether a text ends with another
EndsWith(text, suffix) ==
  /\ Len(suffix) <= Len(text)
  /\ SubSeq(text, Len(text) - Len(suffix) + 1, Len(text)) = suffix

\* C23: copy-jahia-redirections never changes the htaccess of the source
\* site; its write to the destination site puts there the Jahia redirections
\* extracted from the source, a line break and the whole previous content of
\* the destination, and a run that ends without error has made that write.
C23_DestinationKeepsItsContent ==
  [][command.name = "copy-jahia-redirections" =>
       /\ htaccess'["source"] = htaccess["source"]
       /\ Writes("source") = {}
       /\ htaccess'["destination"] # htaccess["destination"] =>
            /\ \E directory_path \in DirectoryPaths :
                 LET r == get_jahia_redirections(
                            SourceSiteContent(command.source_site_url, htaccess["source"]),
                            directory_path)
                 IN /\ ~r.raised
                    /\ htaccess'["destination"]
                         = r.text \o <<Newline>> \o htaccess["destination"]
            /\ EndsWith(htaccess'["destination"], htaccess["destination"])
       /\ rpc' = "done" => io'[Len(io')] = Remote("write_htaccess_content", "destination")]_vars

\* copy-jahia-redirections has ended on a Jahia site of the test
\* infrastructure and a destination with WordPress rules: the destination
\* has the redirections, with the site name taken out and the uploads
\* directory of the destination, in front of its WordPress rules.
C23_Witness ==
  /\ command.name = "copy-jahia-redirections"
  /\ command.source_site_url = "https://migration-wp.epfl.ch/mysite"
  /\ rpc = "done"
  /\ htaccess["source"] = JahiaContent
  /\ htaccess["destination"]
       = <<StartMarker(PageMarker), Newline, Newline, "RewriteRule", "/", "page-1.html",
           Newline, Newline, EndMarker(PageMarker), Newline,
           StartMarker(FilesMarker), Newline, Newline, "RewriteRule", "^files/(.*)$",
           "wp-content/uploads/2018/04/$2", Newline, Newline, EndMarker(FilesMarker),
           Newline>> \o WordPressContent

\* The part the claim describes for a content that holds both markers: the
\* BEGIN marker, the text between the first BEGIN marker and the END marker
\* that follows it, and the END marker, on lines of their own
ClaimedPart(content, marker) ==
  LET first == CHOOSE i \in DOMAIN content :
                 content[i] = StartMarker(marker)
                 /\ \A j \in 1..(i - 1) : content[j] # StartMarker(marker)
      rest == SubSeq(content, first + 1, Len(content))
  IN <<StartMarker(marker), Newline>>
     \o SubSeq(rest, 1, (CHOOSE i \in DOMAIN rest :
                           rest[i] = EndMarker(marker)
                           /\ \A j \in 1..(i - 1) : rest[j] # EndMarker(marker)) - 1)
     \o <<Newline, EndMarker(marker)>>

\* C28, as claimed: the page redirections that get_jahia_redirections
\* extracts from a content are empty unless the content holds the BEGIN and
\* the END marker, and are then the BEGIN marker, the text between the first
\* BEGIN marker and the next END marker, and the END marker.
C28_BetweenFirstBeginAndNextEnd ==
  (command.name = "copy-jahia-redirections" /\ rpc = "get_jahia_redirections") =>
    LET content == rlocals.source_site_content
        part == extract_htaccess_part(content, PageMarker)
        first == CHOOSE i \in DOMAIN content :
                   content[i] = StartMarker(PageMarker)
                   /\ \A j \in 1..(i - 1) : content[j] # StartMarker(PageMarker)
    IN IF Contains(content, StartMarker(PageMarker)) /\ Contains(content, EndMarker(PageMarker))
       THEN /\ \E i \in (first + 1)..Len(content) : content[i] = EndMarker(PageMarker)
            /\ part = ClaimedPart(content, PageMarker)
       ELSE part = <<>>

\* The transformer the claim gives for a box type
TransformerOf(type) ==
  CASE type \in {"text", "coloredText", "oneColContainer"} -> "set_box_text"
    [] type = "peopleList" -> "set_box_people_list"
    [] type \in {"infoscience", "infoscienceFilter"} -> "set_box_infoscience"
    [] type = "actu" -> "set_box_actu"
    [] type = "memento" -> "set_box_memento"
    [] type = "faq" -> "set_box_faq"
    [] type = "toggle" -> "set_box_toggle"
    [] type = "include" -> "set_box_include"
    [] type = "contact" -> "set_box_contact"
    [] type = "xml" -> "set_box_xml"
    [] type = "links" -> "set_box_links"
    [] type = "rss" -> "set_box_rss"
    [] type = "files" -> "set_box_files"
    [] type = "buttons_box" -> "set_box_buttons"
    [] type = "snippets" -> "set_box_snippets"
    [] type = "syntaxHighlight" -> "set_box_syntax_highlight"
    [] type = "keyVisual" -> "set_box_key_visuals"
    [] type = "map" -> "set_box_map"
    [] type = "grid" -> "set_box_grid"
    [] OTHER -> "set_box_unknown"

PostProcessingSteps == {"fix_video_iframes", "add_id_to_h3", "fix_img_align_left"}

\* The calls made on a box so far are, in this order, the sort-group
\* registration, the transformer of its type, and post-processing steps of
\* which none is made twice.
CallsInOrder(calls, type) ==
  /\ Len(calls) >= 1 => calls[1] = "set_sort_infos"
  /\ Len(calls) >= 2 => calls[2] = TransformerOf(type)
  /\ \A i \in 3..Len(calls) :
       /\ calls[i] \in PostProcessingSteps
       /\ \A j \in 3..Len(calls) : calls[j] = calls[i] => j = i

\* C24: on a box with a type, construction calls the sort-group registration,
\* then the one transformer of the type (the unknown one for a type outside
\* the closed set), then each of the three post-processing steps once; a
\* constructed box has had all five calls, and the content of the box
\* changes only in the call of the transformer or of a post-processing step.
C24_DispatchOrder ==
  [][/\ CallsInOrder(trace', box'.type)
     /\ trace' # <<>> => box'.type # ""
     /\ (pc' = "done" /\ box'.type # "") =>
          /\ Len(trace') = 5
          /\ {trace'[i] : i \in 3..5} = PostProcessingSteps
     /\ box'.content # box.content =>
          \/ nboxes' = nboxes + 1 /\ box'.content = <<>>
          \/ /\ nboxes' = nboxes
             /\ Len(trace') = Len(trace) + 1
             /\ Len(trace') >= 2]_vars

\* A box of a type outside the closed set is constructed: the unknown
\* transformer and the three post-processing steps were called on it.
C24_Witness ==
  /\ pc = "done"
  /\ box.type = "custom:box"
  /\ Len(trace) = 5
  /\ trace[2] = "set_box_unknown"
  /\ box.content # <<>>

\* C25: the page registry is only read: no step of the construction of a box
\* changes it, also when the box skips an unresolved reference or raises;
\* the shared state a construction changes is the sort-group cache and the
\* shortcode registry.
C25_PageRegistryOnlyRead ==
  [][/\ pages' = pages
     /\ pages' = pages_by_uuid]_vars

\* A big buttons box one of whose buttons refers to a page that is gone is
\* constructed: its shortcode is registered, the page registry is as it was.
C25_Witness ==
  /\ pc = "done"
  /\ Completed("set_box_buttons")
  /\ \E i \in DOMAIN element.buttons : UnresolvedButton(element.buttons[i])
  /\ shortcodes # {}
  /\ pages = pages_by_uuid

\* The places of a content where an item satisfies a condition
Places(content, Cond(_)) == {i \in DOMAIN content : Cond(content[i])}

\* C26: a constructed combo-text box whose first entry has the rule type
\* START_AND_END_DATE has no scheduler tag in its content in two cases, no
\* start date and no end date, or a start date before the date of processing
\* and no end date; in every other case, a start date on or after the date
\* of processing with no end date included, its content is wrapped once: the
\* opening tag is its first item and nowhere else, the closing tag its last
\* item and nowhere else.
C26_WrapperOmittedInTwoCases ==
  (/\ Completed("set_box_text")
   /\ multibox
   /\ element.combos # <<>>
   /\ FirstCombo.ruleType = "START_AND_END_DATE") =>
    LET no_dates == FirstCombo.validFrom = NoDate /\ FirstCombo.validTo = NoDate
        past_start == /\ FirstCombo.validFrom # NoDate
                      /\ FirstCombo.validTo = NoDate
                      /\ FirstCombo.validFrom[1] < locals.today
        opens == Places(box.content, IsSchedulerOpen)
        closes == Places(box.content, LAMBDA x : x = SchedulerClose)
    IN IF no_dates \/ past_start
       THEN opens = {} /\ closes = {}
       ELSE opens = {1} /\ closes = {Len(box.content)}

\* A scheduled combo-text box whose start date is the date of processing,
\* without end date, is done: its content is wrapped from that date on.
C26_Witness ==
  /\ pc = "done"
  /\ Completed("set_box_text")
  /\ multibox
  /\ element.combos # <<>>
  /\ FirstCombo.ruleType = "START_AND_END_DATE"
  /\ FirstCombo.validFrom = DateTime(2, "08:00:00")
  /\ FirstCombo.validTo = NoDate
  /\ locals.today = 2
  /\ box.content[1] = SchedulerOpen(2, 0, "08:00:00", "")
  /\ box.content[Len(box.content)] = SchedulerClose

\* Whether a content has an attribute that lists the given values
ListsValues(content, name, values) ==
  LET attribute == <<Txt(name), Txt("=\"")>> \o Commas(values) \o <<Txt("\" ")>>
  IN \E i \in DOMAIN content :
       /\ i + Len(attribute) - 1 <= Len(content)
       /\ SubSeq(content, i, i + Len(attribute) - 1) = attribute

\* C27, as claimed: the decoding of the service url of an Actu box does not
\* raise, whichever parameters the url has; the content of a constructed
\* Actu box whose url has theme parameters has a themes attribute that
\* lists their values, and one whose url has project parameters has a
\* projects attribute that lists theirs.
C27_ThemesAndProjectsListed ==
  /\ (Len(trace) >= 2 /\ trace[2] = "set_box_actu") => pc # "raised"
  /\ Completed("set_box_actu") =>
       /\ "theme" \in DOMAIN element.url =>
            ListsValues(box.content, "themes", element.url["theme"])
       /\ "project" \in DOMAIN element.url =>
            ListsValues(box.content, "projects", element.url["project"])

\* C29: a buttons box that raises on a button without sort value has
\* registered the shortcode epfl_buttons with its attributes image and url
\* and has the shortcode name epfl_buttons: the step that raises puts the
\* shortcode in the registry when it was not there, and nothing takes it out.
C29_RegisteredBeforeAbort ==
  [][(/\ pc = "transform"
      /\ pc' = "raised"
      /\ box.type = TYPE_BUTTONS) =>
       /\ trace' = Append(trace, "set_box_buttons")
       /\ Shortcode("epfl_buttons", <<"image", "url">>) \in shortcodes'
       /\ shortcodes \subseteq shortcodes'
       /\ box'.shortcode_name = "epfl_buttons"
       /\ box.shortcode_name = ""]_vars

\* The first box of a page, a buttons box with a sort handler whose only
\* button has no sort value, raised: the registry was empty and now has the
\* shortcode of the buttons.
C29_Witness ==
  /\ pc = "raised"
  /\ nboxes = 1
  /\ trace = <<"set_sort_infos", "set_box_buttons">>
  /\ Len(element.buttons) = 1
  /\ NoSortValue(element.sortHandler, element.buttons[1])
  /\ shortcodes = {Shortcode("epfl_buttons", <<"image", "url">>)}
  /\ box.shortcode_name = "epfl_buttons"

\* C30, as claimed: a snippets box whose handler names the direction desc
\* and whose pre-scan disables sorting renders its snippets under index keys
\* in reverse document order; a combo-text box with a sort handler of which
\* a rendered entry has no sort value does not raise and renders its
\* entries under index keys in document order, whichever direction the
\* handler names.
C30_AbandonedDirection ==
  /\ (/\ Completed("set_box_snippets")
      /\ element.hasSnippetListList
      /\ element.sortHandler # NoSort
      /\ element.sortHandler[2] = "desc"
      /\ \E i \in DOMAIN element.snippets :
           ~element.snippets[i].sort.has \/ element.snippets[i].sort = Attr(0)) =>
       LET n == Len(element.snippets)
       IN locals.order = [j \in 1..n |-> IntKey(n - j)]
  /\ (/\ Len(trace) >= 2
      /\ trace[2] = "set_box_text"
      /\ multibox
      /\ element.comboSort # NoSort
      /\ \E i \in RenderedEntries(element) : element.combos[i].jcr = 0) =>
       LET n == Cardinality(RenderedEntries(element))
       IN /\ pc # "raised"
          /\ locals.order = [j \in 1..n |-> IntKey(j - 1)]

====
